---- MODULE Spec2Model ----
(***************************************************************************)
(* Card-transaction classification pipeline (shinjadong/77co).              *)
(*                                                                         *)
(* A merchant name is a sequence of characters.  Korean characters are     *)
(* written by their romanisation, one string per character:                *)
(*   "jeom" = the branch marker (U+C810), "ju" = the corporate marker of    *)
(*   "(ju)", "sseo","beu","we","i" = the four syllables of the sandwich     *)
(*   chain, and so on.  Category labels are romanised the same way, see    *)
(*   the table at Taxonomy.                                                 *)
(* A confidence is an integer number of thousandths (1.0 = 1000).           *)
(***************************************************************************)
EXTENDS Integers, Sequences, FiniteSets, TLC

VARIABLES
    \* ---- Preprocessor.normalize applied once and twice
    nRaw,       \* the raw merchant string handed to normalize
    nTable,     \* the synonym table of the Preprocessor: "empty" or "config"
    nOnce,      \* normalize(raw)
    nTwice,     \* normalize(normalize(raw))
    nPc,        \* "start" | "once" | "twice"
    \* ---- FeedbackManager: the files it reads and writes
    masterDbFile,   \* master_db.csv: the rows of the Reference Store on disk
    feedbackLog,    \* feedback_log.csv: the rows of the feedback log on disk
    backups,        \* master_db_backup_<timestamp>.csv: timestamp -> file content
    now,            \* the wall clock, in seconds
    fbHistory,      \* the collect_feedback runs so far: batch, flag, result, store
    \* ---- RuleEngine / PostProcessor: one call and what it returned
    ruleCall,
    \* ---- CardClassifier and its ClaudeClassifier
    classifier,     \* the constructed CardClassifier: master_db, synonym_map, enable_claude
    stats,          \* ClaudeClassifier.stats
    prediction,     \* the last return of ClaudeClassifier.predict, and the answer it got
    clsResult,      \* the last return of CardClassifier.classify_single
    calls,         \* the number of predict / classify_single calls made
    \* ---- select_fewshot_examples: one call and what it returned
    fewshot,
    \* ---- FinalReviewer.review_results: one call and what it returned
    review,
    \* ---- the matchers: one call of a matcher and what it returned
    matchCall,
    \* ---- collect_feedback runs in progress at the same time, step by step
    fbProcs,
    \* ---- FeedbackManager.check_retrain_trigger: the last call and its return
    retrain

normVars == <<nRaw, nTable, nOnce, nTwice, nPc>>
fbVars == <<masterDbFile, feedbackLog, backups, now, fbHistory>>
ruleVars == <<ruleCall>>
clsVars == <<classifier, stats, prediction, clsResult, calls>>
fewVars == <<fewshot>>
revVars == <<review>>
matchVars == <<matchCall>>
procVars == <<fbProcs, retrain>>
vars == <<normVars, fbVars, ruleVars, clsVars, fewVars, revVars, matchVars, procVars>>

(***************************************************************************)
(* Strings                                                                 *)
(***************************************************************************)
\* pandas' missing value; str() of it never reaches the matchers, it is only
\* compared with strings (and differs from every string, "" included)
NaN == <<"NaN">>

\* the least of a set of positions, 0 when there is none
First(S) == IF S = {} THEN 0 ELSE CHOOSE i \in S : \A j \in S : i <= j

IsSpace(c) == c \in {" ", "\t"}

\* characters outside the allow-list [\w\s<hangul>a-zA-Z0-9\-]
IsSpecial(c) == c \in {"!", "(", ")"}

RECURSIVE LStrip(_)
LStrip(t) == IF t # <<>> /\ IsSpace(Head(t)) THEN LStrip(Tail(t)) ELSE t

RECURSIVE RStrip(_)
RStrip(t) ==
    IF t # <<>> /\ IsSpace(t[Len(t)]) THEN RStrip(SubSeq(t, 1, Len(t) - 1)) ELSE t

\* str.strip()
Strip(t) == RStrip(LStrip(t))

\* length of the run of whitespace t starts with
RECURSIVE SpaceRun(_)
SpaceRun(t) == IF t # <<>> /\ IsSpace(Head(t)) THEN 1 + SpaceRun(Tail(t)) ELSE 0

\* index of the first ")" of t after position 1, 0 when there is none
FirstClose(t) ==
    LET js == {j \in 2..Len(t) : t[j] = ")"}
    IN  IF js = {} THEN 0 ELSE CHOOSE j \in js : \A k \in js : j <= k

IsPrefix(p, t) == Len(p) <= Len(t) /\ SubSeq(t, 1, Len(p)) = p

(***************************************************************************)
(* The regular expressions of Preprocessor.normalize: the length of the    *)
(* match that starts at the first character of t, 0 when none does.        *)
(***************************************************************************)
MatchLen(pat, t) ==
    CASE pat = "branch" ->        \* \([^)]*jeom\)
            IF t # <<>> /\ Head(t) = "(" /\ FirstClose(t) >= 3
               /\ t[FirstClose(t) - 1] = "jeom"
            THEN FirstClose(t) ELSE 0
      [] pat = "corp" ->          \* \(ju\)\s*
            IF IsPrefix(<<"(", "ju", ")">>, t)
            THEN 3 + SpaceRun(SubSeq(t, 4, Len(t))) ELSE 0
      [] pat = "brackets" ->      \* \([^)]*\)
            IF t # <<>> /\ Head(t) = "(" THEN FirstClose(t) ELSE 0
      [] pat = "spaces" ->        \* \s+
            SpaceRun(t)
      [] pat = "special" ->       \* [^\w\s...\-]
            IF t # <<>> /\ IsSpecial(Head(t)) THEN 1 ELSE 0

\* re.sub(pat, repl, t): leftmost, non-overlapping, the result is not rescanned
RECURSIVE ReSub(_, _, _)
ReSub(pat, repl, t) ==
    IF t = <<>> THEN <<>>
    ELSE IF MatchLen(pat, t) > 0
         THEN repl \o ReSub(pat, repl, SubSeq(t, MatchLen(pat, t) + 1, Len(t)))
         ELSE <<Head(t)>> \o ReSub(pat, repl, Tail(t))

\* str.replace(old, new)
RECURSIVE Replace(_, _, _)
Replace(t, old, new) ==
    IF t = <<>> THEN <<>>
    ELSE IF IsPrefix(old, t)
         THEN new \o Replace(SubSeq(t, Len(old) + 1, Len(t)), old, new)
         ELSE <<Head(t)>> \o Replace(Tail(t), old, new)

\* config.SYNONYM_MAP, in the dict's iteration order
SYNONYM_MAP ==
    << <<(<<"sseo", "beu", "we", "i">>),            <<"seo", "beu", "we", "i">> >>,
       <<(<<"o", "il", " ", "baeng", "keu">>),      <<"o", "il", "baeng", "keu">> >>,
       <<(<<"G", "S", " ", "kal", "teg", "seu">>),  <<"G", "S", "kal", "teg", "seu">> >>,
       <<(<<"e", "seu", "ke", "i">>),               <<"S", "K">> >>,
       <<(<<"e", "seu", "o", "il">>),               <<"S", "-", "O", "I", "L">> >> >>

\* Preprocessor.__init__: synonym_map or {}
SynonymTable(table) == IF table = "config" THEN SYNONYM_MAP ELSE <<>>

\* the loop over synonym_map.items(), entries k..Len(syn)
RECURSIVE ApplySynonyms(_, _, _)
ApplySynonyms(t, syn, k) ==
    IF k > Len(syn) THEN t
    ELSE ApplySynonyms(Replace(t, syn[k][1], syn[k][2]), syn, k + 1)

\* Preprocessor.normalize with synonym table syn
normalize(merchant_name, syn) ==
    IF merchant_name = <<>> \/ merchant_name = NaN THEN <<>>
    ELSE LET t0 == Strip(merchant_name)
             t1 == ReSub("branch", <<>>, t0)
             t2 == ReSub("brackets", <<>>, ReSub("corp", <<>>, t1))
             t3 == Strip(ReSub("spaces", <<" ">>, t2))
             t4 == ReSub("special", <<>>, t3)
             t5 == ApplySynonyms(t4, syn, 1)
         IN  Strip(t5)

\* the convenience function normalize_merchant(name, synonym_map = None)
normalize_merchant(merchant_name) == normalize(merchant_name, SynonymTable("empty"))

(***************************************************************************)
(* Inputs of the normalizer                                                *)
(***************************************************************************)
MaxLen == 5
MaxPieces == 3

CoreAlphabet == {"x", " ", "!", "(", ")", "jeom", "ju"}

\* the pieces the variants of SYNONYM_MAP are made of
SynPieces ==
    { <<"sseo", "beu", "we", "i">>, <<"o", "il">>, <<" ">>, <<"baeng", "keu">>,
      <<"G", "S">>, <<"kal", "teg", "seu">>, <<"e", "seu">>, <<"ke", "i">> }

RECURSIVE Strings(_, _)
Strings(alphabet, n) ==
    IF n = 0 THEN {<<>>}
    ELSE LET shorter == Strings(alphabet, n - 1)
         IN  shorter \cup {<<c>> \o s : c \in alphabet, s \in {u \in shorter : Len(u) = n - 1}}

RECURSIVE Concats(_, _)
Concats(pieces, n) ==
    IF n = 0 THEN {<<>>}
    ELSE LET fewer == Concats(pieces, n - 1)
         IN  fewer \cup {p \o s : p \in pieces, s \in fewer}

NormInputs == Strings(CoreAlphabet, MaxLen) \cup Concats(SynPieces, MaxPieces)

\* the state of a component a specification does not exercise
IdleNorm ==
    /\ nRaw = <<>>
    /\ nTable = "empty"
    /\ nOnce = <<>>
    /\ nTwice = <<>>
    /\ nPc = "idle"

IdleFeedback ==
    /\ masterDbFile = <<>>
    /\ feedbackLog = <<>>
    /\ backups = <<>>
    /\ now = 0
    /\ fbHistory = <<>>

\* no rule call has been made
IdleRules == ruleCall = [pc |-> "idle"]

IdleFewshot == fewshot = [pc |-> "idle"]

IdleReview == review = [pc |-> "idle"]

IdleMatch == matchCall = [pc |-> "idle"]

IdleProcs == fbProcs = [pc |-> "idle"] /\ retrain = [pc |-> "idle"]

\* ClaudeClassifier.__init__ and reset_stats
ZeroStats ==
    [total_calls |-> 0, successful_calls |-> 0, failed_calls |-> 0,
     total_input_tokens |-> 0, total_output_tokens |-> 0]

\* no classifier has been constructed, no call made
IdleCls ==
    /\ classifier = [loaded |-> FALSE]
    /\ stats = ZeroStats
    /\ prediction = [made |-> FALSE]
    /\ clsResult = [made |-> FALSE]
    /\ calls = 0

InitNorm ==
    /\ nRaw \in NormInputs
    /\ nTable \in {"empty", "config"}
    /\ nOnce = <<>>
    /\ nTwice = <<>>
    /\ nPc = "start"
    /\ IdleFeedback
    /\ IdleMatch
    /\ IdleProcs
    /\ IdleFewshot
    /\ IdleReview
    /\ IdleRules
    /\ IdleCls

NormalizeOnce ==
    /\ nPc = "start"
    /\ nOnce' = normalize(nRaw, SynonymTable(nTable))
    /\ nPc' = "once"
    /\ UNCHANGED <<nRaw, nTable, nTwice>>
    /\ UNCHANGED <<fbVars, ruleVars, clsVars, fewVars, revVars, matchVars, procVars>>

NormalizeTwice ==
    /\ nPc = "once"
    /\ nTwice' = normalize(nOnce, SynonymTable(nTable))
    /\ nPc' = "twice"
    /\ UNCHANGED <<nRaw, nTable, nOnce>>
    /\ UNCHANGED <<fbVars, ruleVars, clsVars, fewVars, revVars, matchVars, procVars>>

NextNorm == NormalizeOnce \/ NormalizeTwice

SpecNorm == InitNorm /\ [][NextNorm]_vars

\* C2: normalize is idempotent: normalize(normalize(x)) = normalize(x) for every
\* input, under the empty synonym table and under config.SYNONYM_MAP.
C2_NormalizeIdempotent == nPc = "twice" => nTwice = nOnce

\* the case of C2: a disallowed character between two spaces has been removed
C2_Witness ==
    /\ nPc = "twice"
    /\ nRaw = <<"x", " ", "!", " ", "x">>
    /\ nOnce = <<"x", " ", " ", "x">>

(***************************************************************************)
(* Feedback loop (FeedbackManager)                                         *)
(*                                                                         *)
(* A CSV file is a sequence of rows of field texts.  pandas reads an empty *)
(* field as NaN and writes NaN (and the empty string) as an empty field.   *)
(***************************************************************************)
NaNCat == "NaN"

\* the numerals of a category column, and the numbers pandas parses them to
NumberOf == [n \in {"0", "1"} |-> IF n = "0" THEN "num:0" ELSE "num:1"]

\* pd.read_csv of the store file: a category column whose fields are all
\* numerals (or empty) is parsed as numbers
ReadCsv(file) ==
    LET numeric == /\ \A i \in 1..Len(file) : file[i].cat \in DOMAIN NumberOf \cup {""}
                   /\ \E i \in 1..Len(file) : file[i].cat \in DOMAIN NumberOf
    IN  [i \in 1..Len(file) |->
            [key |-> IF file[i].key = <<>> THEN NaN ELSE file[i].key,
             cat |-> IF file[i].cat = "" THEN NaNCat
                     ELSE IF numeric THEN NumberOf[file[i].cat]
                     ELSE file[i].cat]]

\* DataFrame.to_csv of the store
ToCsv(df) ==
    [i \in 1..Len(df) |->
        [key |-> IF df[i].key = NaN THEN <<>> ELSE df[i].key,
         cat |-> IF df[i].cat = NaNCat THEN ""
                 ELSE IF \E n \in DOMAIN NumberOf : NumberOf[n] = df[i].cat
                 THEN CHOOSE n \in DOMAIN NumberOf : NumberOf[n] = df[i].cat
                 ELSE df[i].cat]]

\* the selection of confirmed rows left out: every row of the file counts
ConfirmedAll(batch) == batch

\* feedback_df[notna(confirmed) & (confirmed != "")]: an empty field is NaN
RECURSIVE Confirmed(_)
Confirmed(batch) ==
    IF batch = <<>> THEN <<>>
    ELSE IF Head(batch).confirmed # ""
         THEN <<Head(batch)>> \o Confirmed(Tail(batch))
         ELSE Confirmed(Tail(batch))

\* the merchant cell of a feedback row as read_csv gives it
MerchantCell(row) == IF row.merchant = <<>> THEN NaN ELSE row.merchant

\* one pass of the loop of _update_master_db: acc = [df, new_entries, updated_entries]
UpsertRow(acc, row) ==
    LET normalized_merchant == normalize_merchant(MerchantCell(row))
        existing == {i \in 1..Len(acc.df) : acc.df[i].key = normalized_merchant}
    IN  IF existing # {}
        THEN [df |-> [i \in 1..Len(acc.df) |->
                        IF i \in existing
                        THEN [acc.df[i] EXCEPT !.cat = row.confirmed]
                        ELSE acc.df[i]],
              new_entries |-> acc.new_entries,
              updated_entries |-> acc.updated_entries + 1]
        ELSE [df |-> Append(acc.df, [key |-> normalized_merchant, cat |-> row.confirmed]),
              new_entries |-> acc.new_entries + 1,
              updated_entries |-> acc.updated_entries]

RECURSIVE UpsertAll(_, _)
UpsertAll(acc, rows) ==
    IF rows = <<>> THEN acc ELSE UpsertAll(UpsertRow(acc, Head(rows)), Tail(rows))

\* DataFrame.drop_duplicates(subset = key, keep = "last")
RECURSIVE DropDuplicatesLast(_)
DropDuplicatesLast(df) ==
    IF df = <<>> THEN <<>>
    ELSE IF \E j \in 2..Len(df) : df[j].key = Head(df).key
         THEN DropDuplicatesLast(Tail(df))
         ELSE <<Head(df)>> \o DropDuplicatesLast(Tail(df))

\* _update_master_db up to the point where the files are written
UpdateMasterDb(file, confirmed) ==
    LET acc == UpsertAll([df |-> ReadCsv(file), new_entries |-> 0, updated_entries |-> 0],
                         confirmed)
    IN  [file |-> ToCsv(DropDuplicatesLast(acc.df)),
         new_entries |-> acc.new_entries,
         updated_entries |-> acc.updated_entries]

\* _save_feedback_log: the confirmed rows, stamped, after the existing log
LogRows(confirmed, at) ==
    [i \in 1..Len(confirmed) |->
        [merchant |-> confirmed[i].merchant, confirmed |-> confirmed[i].confirmed,
         at |-> at]]

\* pd.read_csv of the log file, and DataFrame.to_csv of the log: an empty
\* merchant field is NaN in the frame and an empty field again in the file
ReadLog(file) ==
    [i \in 1..Len(file) |-> [file[i] EXCEPT !.merchant = IF @ = <<>> THEN NaN ELSE @]]

WriteLog(df) ==
    [i \in 1..Len(df) |-> [df[i] EXCEPT !.merchant = IF @ = NaN THEN <<>> ELSE @]]

\* the log file is written from the new rows alone
_save_feedback_logOverwrites(log, confirmed, at) ==
    WriteLog(ReadLog(LogRows(confirmed, at)))

\* the existing log as _save_feedback_log loads it; a log without rows is a
\* log file that does not exist
ExistingLog(log) == IF log # <<>> THEN ReadLog(log) ELSE <<>>

\* the file is written from the new rows, without the rows that were loaded
ConcatLogNew(existing_log, confirmed, at) ==
    WriteLog(ReadLog(LogRows(confirmed, at)))

\* pd.concat([existing_log, log_df]) and to_csv
ConcatLog(existing_log, confirmed, at) ==
    WriteLog(existing_log \o ReadLog(LogRows(confirmed, at)))

\* FeedbackManager._save_feedback_log: the file that is written
_save_feedback_log(log, confirmed, at) ==
    ConcatLog(ExistingLog(log), confirmed, at)

\* FeedbackManager.check_retrain_trigger
RetrainThreshold == 50

check_retrain_trigger(log) ==
    IF log = <<>> THEN FALSE ELSE Len(ReadLog(log)) >= RetrainThreshold

(***************************************************************************)
(* Inputs of the feedback loop                                             *)
(***************************************************************************)
MaxStore == 2
MaxBatch == 2
MaxRuns == 2
MaxClock == 1

\* raw merchants of a feedback file: a name with a branch suffix (its key is
\* "x") and a name that is nothing but the corporate marker (its key is "")
FbMerchants == { <<"x", "(", "y", "jeom", ")">>, <<"(", "ju", ")">> }
FbCategories == {"Meal", "Supplies"}

\* the rows of a feedback file: confirmed ones, and one left unconfirmed
FbRows ==
    [merchant : FbMerchants, confirmed : FbCategories]
        \cup {[merchant |-> <<"x">>, confirmed |-> ""]}

RECURSIVE SeqsUpTo(_, _)
SeqsUpTo(S, n) ==
    IF n = 0 THEN {<<>>}
    ELSE LET shorter == SeqsUpTo(S, n - 1)
         IN  shorter \cup {Append(s, e) : s \in {u \in shorter : Len(u) = n - 1}, e \in S}

\* the store files a run may find: any rows, duplicate and empty keys included
StoreRows == [key : {<<"x">>, <<>>}, cat : {"Etc"}]

FbStores == SeqsUpTo(StoreRows, MaxStore)

InitFeedback ==
    /\ masterDbFile \in FbStores
    /\ feedbackLog = <<>>
    /\ backups = <<>>
    /\ now = 0
    /\ fbHistory = <<>>
    /\ IdleNorm
    /\ IdleMatch
    /\ IdleProcs
    /\ IdleFewshot
    /\ IdleReview
    /\ IdleRules
    /\ IdleCls

\* FeedbackManager.collect_feedback(feedback_file, auto_update)
CollectFeedback(batch, auto_update) ==
    LET confirmed == Confirmed(batch)
        upd == UpdateMasterDb(masterDbFile, confirmed)
        commit == confirmed # <<>> /\ auto_update
        result ==
            IF confirmed = <<>>
            THEN [new_entries |-> 0, updated_entries |-> 0, errors |-> <<"no confirmed row">>]
            ELSE IF auto_update
                 THEN [new_entries |-> upd.new_entries,
                       updated_entries |-> upd.updated_entries, errors |-> <<>>]
                 ELSE [new_entries |-> 0, updated_entries |-> 0, errors |-> <<>>]
    IN  /\ Len(fbHistory) < MaxRuns
        /\ feedbackLog' = IF confirmed = <<>> THEN feedbackLog
                          ELSE _save_feedback_log(feedbackLog, confirmed, now)
        /\ backups' = IF commit THEN (now :> ToCsv(ReadCsv(masterDbFile))) @@ backups
                      ELSE backups
        /\ masterDbFile' = IF commit THEN upd.file ELSE masterDbFile
        /\ fbHistory' = Append(fbHistory,
                               [batch |-> batch, auto_update |-> auto_update,
                                result |-> result, committed |-> commit,
                                before |-> masterDbFile,
                                after |-> masterDbFile'])
        /\ UNCHANGED now
        /\ UNCHANGED <<normVars, ruleVars, clsVars, fewVars,
                       revVars, matchVars, procVars>>

FbBatches == SeqsUpTo(FbRows, MaxBatch)

RunFeedback ==
    \E batch \in FbBatches, auto_update \in BOOLEAN :
        CollectFeedback(batch, auto_update)

\* a second passes on the wall clock
Tick ==
    /\ now < MaxClock
    /\ now' = now + 1
    /\ UNCHANGED <<masterDbFile, feedbackLog, backups, fbHistory>>
    /\ UNCHANGED <<normVars, ruleVars, clsVars, fewVars, revVars, matchVars, procVars>>

NextFeedback == RunFeedback \/ Tick

SpecFeedback == InitFeedback /\ [][NextFeedback]_vars

\* the key a feedback row is filed under
FbKey(row) == normalize_merchant(MerchantCell(row))

\* the rows of a store file whose key field is k
RowsOf(file, k) == {i \in 1..Len(file) : file[i].key = k}

\* C3: feedback upsert is idempotent: when a run with auto_update repeats the
\* batch of the run before it (also with auto_update), the store is left as the
\* first run left it, and the second run reports 0 new entries and as many
\* updated entries as the batch has confirmed rows.
C3_UpsertIdempotent ==
    \A i \in 2..Len(fbHistory) :
        (/\ fbHistory[i].batch = fbHistory[i - 1].batch
         /\ fbHistory[i].auto_update /\ fbHistory[i - 1].auto_update)
        => /\ fbHistory[i].after = fbHistory[i - 1].after
           /\ fbHistory[i].result.new_entries = 0
           /\ fbHistory[i].result.updated_entries = Len(Confirmed(fbHistory[i].batch))

\* the case of C3: a batch with a row whose merchant normalizes to the empty
\* string has been committed twice in a row
C3_Witness ==
    /\ Len(fbHistory) = 2
    /\ fbHistory[2].batch = fbHistory[1].batch
    /\ fbHistory[1].committed /\ fbHistory[2].committed
    /\ \E j \in 1..Len(fbHistory[2].batch) : FbKey(fbHistory[2].batch[j]) = <<>>

\* C4: after every commit the persisted store holds no two rows with the same
\* key, and the row of a key the batch names carries the category of the last
\* confirmed row of the batch with that key.
C4_UniqueKeysLastWins ==
    \A i \in 1..Len(fbHistory) :
        fbHistory[i].committed =>
            LET file == fbHistory[i].after
                rows == Confirmed(fbHistory[i].batch)
            IN  /\ \A a, b \in 1..Len(file) : file[a].key = file[b].key => a = b
                /\ \A j \in 1..Len(rows) :
                      (\A l \in (j + 1)..Len(rows) : FbKey(rows[l]) # FbKey(rows[j]))
                      => \A a \in RowsOf(file, FbKey(rows[j])) :
                            file[a].cat = rows[j].confirmed

\* the case of C4: a commit of a batch that names one key twice, with two
\* different categories
C4_Witness ==
    \E i \in 1..Len(fbHistory) :
        /\ fbHistory[i].committed
        /\ LET rows == Confirmed(fbHistory[i].batch)
           IN  /\ Len(rows) = 2
               /\ FbKey(rows[1]) = FbKey(rows[2])
               /\ rows[1].confirmed # rows[2].confirmed

\* the run that a step of collect_feedback adds to the history
LastRun(history) == history[Len(history)]

\* C15: every commit of collect_feedback writes a backup, under a name no
\* earlier backup has, that equals the store file as it was before the commit,
\* and a backup once written stays as it is, however little time passes between
\* two commits.
C15_BackupPerCommit ==
    [][/\ \A t \in DOMAIN backups :
             t \in DOMAIN backups' /\ backups'[t] = backups[t]
       /\ (Len(fbHistory') = Len(fbHistory) + 1 /\ LastRun(fbHistory').committed)
             => \E t \in DOMAIN backups' \ DOMAIN backups : backups'[t] = masterDbFile]_vars

\* the case of C15: two commits within the same second
C15_Witness ==
    /\ Len(fbHistory) = 2
    /\ fbHistory[1].committed /\ fbHistory[2].committed
    /\ now = 0

\* C18: a run of collect_feedback on a file none of whose rows has a confirmed
\* category reports 0 new entries, 0 updated entries and exactly one error, and
\* leaves the feedback log, the store file and the backups as they were.
C18_NothingConfirmed ==
    [][(/\ Len(fbHistory') = Len(fbHistory) + 1
        /\ \A j \in 1..Len(LastRun(fbHistory').batch) :
               LastRun(fbHistory').batch[j].confirmed = "")
       => /\ LastRun(fbHistory').result.new_entries = 0
          /\ LastRun(fbHistory').result.updated_entries = 0
          /\ Len(LastRun(fbHistory').result.errors) = 1
          /\ feedbackLog' = feedbackLog
          /\ masterDbFile' = masterDbFile
          /\ backups' = backups]_vars

\* the case of C18: a file with rows, none of them confirmed, has been
\* collected with auto_update
C18_Witness ==
    \E i \in 1..Len(fbHistory) :
        /\ fbHistory[i].batch # <<>>
        /\ \A j \in 1..Len(fbHistory[i].batch) : fbHistory[i].batch[j].confirmed = ""
        /\ fbHistory[i].auto_update
        /\ Len(fbHistory[i].result.errors) = 1

\* no two rows of a store file have the same key field
UniqueKeys(file) == \A a, b \in 1..Len(file) : file[a].key = file[b].key => a = b

\* C19: starting from a store file with unique keys, every commit keeps every
\* key of the store file (its category may change), and the file has as many
\* rows after the commit as before it plus the reported new entries.
C19_EntriesNeverDeleted ==
    (fbHistory # <<>> /\ UniqueKeys(fbHistory[1].before))
    => \A i \in 1..Len(fbHistory) :
          fbHistory[i].committed =>
              /\ \A a \in 1..Len(fbHistory[i].before) :
                     RowsOf(fbHistory[i].after, fbHistory[i].before[a].key) # {}
              /\ Len(fbHistory[i].after) =
                     Len(fbHistory[i].before) + fbHistory[i].result.new_entries

\* the case of C19: two commits in a row that started from a store file with
\* unique keys, the second with a new entry
C19_Witness ==
    /\ Len(fbHistory) = 2
    /\ UniqueKeys(fbHistory[1].before)
    /\ fbHistory[1].before # <<>>
    /\ fbHistory[1].committed /\ fbHistory[2].committed
    /\ fbHistory[2].result.new_entries = 1

(***************************************************************************)
(* The retrain trigger over a log that earlier runs have filled            *)
(***************************************************************************)
MaxChecks == 2

\* a log as earlier runs left it: n rows
OldLog(n) == [i \in 1..n |-> [merchant |-> <<"x">>, confirmed |-> "Meal", at |-> 0]]

\* no log file, and logs just below and at the threshold
OldLogs == {OldLog(n) : n \in {0, 47, 48, 49, 50}}

InitRetrain ==
    /\ masterDbFile \in {<<>>, << [key |-> <<"x">>, cat |-> "Etc"] >>}
    /\ feedbackLog \in OldLogs
    /\ backups = <<>>
    /\ now = 1
    /\ fbHistory = <<>>
    /\ IdleNorm
    /\ IdleMatch
    /\ IdleProcs
    /\ IdleFewshot
    /\ IdleReview
    /\ IdleRules
    /\ IdleCls

\* the number of check_retrain_trigger calls made
Checks == IF retrain.pc = "idle" THEN 0 ELSE retrain.n

\* one call of FeedbackManager.check_retrain_trigger()
CheckRetrainTrigger ==
    /\ Checks < MaxChecks
    /\ retrain' = [pc |-> "checked", n |-> Checks + 1,
                   result |-> check_retrain_trigger(feedbackLog)]
    /\ UNCHANGED fbProcs
    /\ UNCHANGED <<normVars, fbVars, ruleVars, clsVars, fewVars, revVars, matchVars>>

NextRetrain == RunFeedback \/ CheckRetrainTrigger

SpecRetrain == InitRetrain /\ [][NextRetrain]_vars

RaceBatches ==
    {<<row>> : row \in [merchant : {<<"x">>, <<"y">>}, confirmed : {"Meal", "Supplies", ""}]}

RaceStores == {<<>>, << [key |-> <<"x">>, cat |-> "Etc"] >>}

StartRun(batch, auto_update) ==
    [pc |-> "start", batch |-> batch, auto_update |-> auto_update, confirmed |-> <<>>,
     existing_log |-> <<>>, upd |-> [file |-> <<>>, new_entries |-> 0, updated_entries |-> 0],
     result |-> [new_entries |-> 0, updated_entries |-> 0, errors |-> <<>>]]

InitRace ==
    /\ masterDbFile \in RaceStores
    /\ feedbackLog \in {OldLog(0), OldLog(1)}
    /\ backups = <<>>
    /\ now = 1
    /\ fbHistory = <<>>
    /\ \E serialized \in BOOLEAN, b1 \in RaceBatches, b2 \in RaceBatches,
          a1 \in BOOLEAN, a2 \in BOOLEAN :
           fbProcs = [pc |-> "running", serialized |-> serialized,
                      log0 |-> Len(feedbackLog),
                      runs |-> <<StartRun(b1, a1), StartRun(b2, a2)>>]
    /\ retrain = [pc |-> "idle"]
    /\ IdleNorm
    /\ IdleMatch
    /\ IdleFewshot
    /\ IdleReview
    /\ IdleRules
    /\ IdleCls

\* run p may take a step: the runs are not serialized, or the other run has
\* not begun or has returned
MayStep(p) ==
    /\ fbProcs.pc = "running"
    /\ \/ ~fbProcs.serialized
       \/ fbProcs.runs[3 - p].pc \in {"start", "done"}

\* run p goes on as run
Goes(p, run) == fbProcs' = [fbProcs EXCEPT !.runs[p] = run]

\* collect_feedback up to the call of _save_feedback_log: the feedback file is
\* read and the confirmed rows are selected
RaceSelect(p) ==
    LET Selected(run, confirmed) ==
            IF confirmed = <<>>
            THEN [run EXCEPT !.pc = "done",
                             !.result.errors = <<"no confirmed row">>]
            ELSE [run EXCEPT !.pc = "logRead", !.confirmed = confirmed]
    IN  /\ MayStep(p)
        /\ fbProcs.runs[p].pc = "start"
        /\ Goes(p, Selected(fbProcs.runs[p], Confirmed(fbProcs.runs[p].batch)))
        /\ UNCHANGED retrain
        /\ UNCHANGED <<normVars, fbVars, ruleVars, clsVars, fewVars, revVars, matchVars>>

\* _save_feedback_log: the existing log is loaded
RaceLogRead(p) ==
    /\ MayStep(p)
    /\ fbProcs.runs[p].pc = "logRead"
    /\ Goes(p, [fbProcs.runs[p] EXCEPT !.pc = "logWrite",
                                        !.existing_log = ExistingLog(feedbackLog)])
    /\ UNCHANGED retrain
    /\ UNCHANGED <<normVars, fbVars, ruleVars, clsVars, fewVars, revVars, matchVars>>

\* _save_feedback_log: the log is written; without auto_update the run returns
RaceLogWrite(p) ==
    /\ MayStep(p)
    /\ fbProcs.runs[p].pc = "logWrite"
    /\ feedbackLog' = ConcatLog(fbProcs.runs[p].existing_log,
                                fbProcs.runs[p].confirmed, now)
    /\ Goes(p, [fbProcs.runs[p] EXCEPT
                    !.pc = IF fbProcs.runs[p].auto_update THEN "dbRead" ELSE "done"])
    /\ UNCHANGED <<masterDbFile, backups, now, fbHistory, retrain>>
    /\ UNCHANGED <<normVars, ruleVars, clsVars, fewVars, revVars, matchVars>>

\* _update_master_db: the store is loaded and the confirmed rows are applied
\* to the frame
RaceDbRead(p) ==
    /\ MayStep(p)
    /\ fbProcs.runs[p].pc = "dbRead"
    /\ Goes(p, [fbProcs.runs[p] EXCEPT
                    !.pc = "backup",
                    !.upd = UpdateMasterDb(masterDbFile, fbProcs.runs[p].confirmed)])
    /\ UNCHANGED retrain
    /\ UNCHANGED <<normVars, fbVars, ruleVars, clsVars, fewVars, revVars, matchVars>>

\* _update_master_db: the store file is read again and written as the backup
RaceBackup(p) ==
    /\ MayStep(p)
    /\ fbProcs.runs[p].pc = "backup"
    /\ backups' = (now :> ToCsv(ReadCsv(masterDbFile))) @@ backups
    /\ Goes(p, [fbProcs.runs[p] EXCEPT !.pc = "dbWrite"])
    /\ UNCHANGED <<masterDbFile, feedbackLog, now, fbHistory, retrain>>
    /\ UNCHANGED <<normVars, ruleVars, clsVars, fewVars, revVars, matchVars>>

\* _update_master_db: the store file is written and the counts are returned
RaceDbWrite(p) ==
    /\ MayStep(p)
    /\ fbProcs.runs[p].pc = "dbWrite"
    /\ masterDbFile' = fbProcs.runs[p].upd.file
    /\ Goes(p, [fbProcs.runs[p] EXCEPT
                    !.pc = "done",
                    !.result.new_entries = fbProcs.runs[p].upd.new_entries,
                    !.result.updated_entries = fbProcs.runs[p].upd.updated_entries])
    /\ UNCHANGED <<feedbackLog, backups, now, fbHistory, retrain>>
    /\ UNCHANGED <<normVars, ruleVars, clsVars, fewVars, revVars, matchVars>>

NextRace ==
    \E p \in {1, 2} :
        \/ RaceSelect(p)
        \/ RaceLogRead(p)
        \/ RaceLogWrite(p)
        \/ RaceDbRead(p)
        \/ RaceBackup(p)
        \/ RaceDbWrite(p)

SpecRace == InitRace /\ [][NextRace]_vars

\* both runs have returned
BothDone ==
    /\ fbProcs.pc = "running"
    /\ \A p \in {1, 2} : fbProcs.runs[p].pc = "done"

\* the categories that the runs which write the store confirmed for a key
WrittenFor(key) ==
    UNION {{fbProcs.runs[q].confirmed[i].confirmed :
               i \in {j \in 1..Len(fbProcs.runs[q].confirmed) :
                          FbKey(fbProcs.runs[q].confirmed[j]) = key}} :
           q \in {r \in {1, 2} : fbProcs.runs[r].auto_update}}

\* a key that run p reported as inserted or updated is not in the store, or
\* is there with a category that no run confirmed for it
StoreLost(p) ==
    /\ fbProcs.runs[p].result.new_entries + fbProcs.runs[p].result.updated_entries >= 1
    /\ \E i \in 1..Len(fbProcs.runs[p].confirmed) :
           \A j \in 1..Len(masterDbFile) :
               masterDbFile[j].key = FbKey(fbProcs.runs[p].confirmed[i])
                   => masterDbFile[j].cat
                          \notin WrittenFor(FbKey(fbProcs.runs[p].confirmed[i]))

\* rows that the runs appended to the log are not in the log
LogLost ==
    Len(feedbackLog) < fbProcs.log0 + Len(fbProcs.runs[1].confirmed)
                                     + Len(fbProcs.runs[2].confirmed)

\* C29: two collect_feedback runs on the same store and log are safe when they
\* are serialized: after both have returned, every key that a run reported as
\* inserted or updated is in the store with a category confirmed for it, and
\* the log holds the rows of both runs.  (Without serialization a state that
\* loses a reported key or log rows is reachable: C29_Witness.)
C29_SerializedRunsSafe ==
    (BothDone /\ fbProcs.serialized) => (~StoreLost(1) /\ ~StoreLost(2) /\ ~LogLost)

\* two runs that were not serialized have returned; the store has lost a key
\* that one of them reported, and the log has lost rows
C29_Witness ==
    /\ BothDone
    /\ ~fbProcs.serialized
    /\ StoreLost(1) \/ StoreLost(2)
    /\ LogLost

(***************************************************************************)
(* Matching cascade (matchers.py)                                          *)
(*                                                                         *)
(* A reference store in memory (master_db) is a sequence of rows           *)
(* [key, cat].  A category value is a label, NaNCat (a missing cell), or a  *)
(* number of a numeric column, written "num:<n>".  None is Python's None.  *)
(***************************************************************************)
None == "None"

\* Python truthiness of a category value: "" and the number 0 are falsy,
\* NaN and every non-empty string are truthy
Truthy(v) == v \notin {None, "", "num:0"}

MatchSource == [exact |-> "ExactMatch", fuzzy |-> "Fuzzy", ngram |-> "N-gram",
                unmatched |-> "Unmatched"]

\* ExactMatcher.__init__ and match: dict(zip(keys, cats)).get(merchant); of two
\* rows with one key the dict keeps the later one
ExactMatch(master_db, merchant) ==
    LET hits == {i \in 1..Len(master_db) : master_db[i].key = merchant}
    IN  IF hits = {} THEN None
        ELSE master_db[CHOOSE i \in hits : \A j \in hits : j <= i].cat

\* length of a longest common subsequence
RECURSIVE LCS(_, _)
LCS(a, b) ==
    IF a = <<>> \/ b = <<>> THEN 0
    ELSE IF Head(a) = Head(b) THEN 1 + LCS(Tail(a), Tail(b))
    ELSE LET l == LCS(Tail(a), b)
             r == LCS(a, Tail(b))
         IN  IF l >= r THEN l ELSE r

\* rapidfuzz fuzz.ratio / 100, in thousandths: the normalized Indel similarity
\* 2 * LCS / (len1 + len2), 1.0 for two empty strings
Ratio(a, b) ==
    IF Len(a) + Len(b) = 0 THEN 1000 ELSE (2000 * LCS(a, b)) \div (Len(a) + Len(b))

\* config.FUZZY_THRESHOLD and the default ngram_threshold, in thousandths
FUZZY_THRESHOLD == 850
NGRAM_THRESHOLD == 600
NGRAM_SIZE == 3

\* the first index of idx at which score is largest
FirstBest(idx, score) ==
    CHOOSE i \in idx : \A j \in idx : score[j] < score[i] \/ (score[j] = score[i] /\ i <= j)

\* FuzzyMatcher.match: process.extractOne with score_cutoff, then the category
\* of the first row that has the matched key; hit = FALSE stands for None
FuzzyMatch(master_db, merchant) ==
    LET Category(matched_merchant) ==
            master_db[CHOOSE i \in 1..Len(master_db) :
                         /\ master_db[i].key = matched_merchant
                         /\ \A j \in 1..(i - 1) : master_db[j].key # matched_merchant].cat
        Result(score, best) == [hit |-> TRUE, cat |-> Category(master_db[best].key),
                                score |-> score[best]]
        ExtractOne(score, above) == IF above = {} THEN [hit |-> FALSE]
                                    ELSE Result(score, FirstBest(above, score))
        Scored(score) ==
            ExtractOne(score, {i \in 1..Len(master_db) : score[i] >= FUZZY_THRESHOLD})
    IN  Scored([i \in 1..Len(master_db) |-> Ratio(merchant, master_db[i].key)])

\* NGramMatcher._get_ngrams
NGrams(text, n) ==
    IF Len(text) < n THEN {text}
    ELSE {SubSeq(text, i, i + n - 1) : i \in 1..(Len(text) - n + 1)}

\* NGramMatcher._ngram_similarity: Jaccard similarity, in thousandths
NGramSimilarity(text1, text2) ==
    LET ngrams1 == NGrams(text1, NGRAM_SIZE)
        ngrams2 == NGrams(text2, NGRAM_SIZE)
    IN  (1000 * Cardinality(ngrams1 \cap ngrams2)) \div Cardinality(ngrams1 \cup ngrams2)

\* NGramMatcher.match: the loop keeps a row only on a strictly higher score that
\* reaches the threshold; the final test is the truthiness of the category
NGramMatch(master_db, merchant) ==
    LET Result(score, best) ==
            IF Truthy(master_db[best].cat)
            THEN [hit |-> TRUE, cat |-> master_db[best].cat, score |-> score[best]]
            ELSE [hit |-> FALSE]
        Best(score, above) == IF above = {} THEN [hit |-> FALSE]
                              ELSE Result(score, FirstBest(above, score))
        Scored(score) ==
            Best(score, {i \in 1..Len(master_db) :
                            score[i] > 0 /\ score[i] >= NGRAM_THRESHOLD})
    IN  Scored([i \in 1..Len(master_db) |-> NGramSimilarity(merchant, master_db[i].key)])

\* HybridMatcher.match
HybridMatch(master_db, merchant) ==
    LET Cascade(exact_result, fuzzy_result, ngram_result) ==
            IF Truthy(exact_result)
            THEN [cat |-> exact_result, conf |-> 1000, source |-> MatchSource.exact]
            ELSE IF fuzzy_result.hit
            THEN [cat |-> fuzzy_result.cat, conf |-> fuzzy_result.score,
                  source |-> MatchSource.fuzzy]
            ELSE IF ngram_result.hit
            THEN [cat |-> ngram_result.cat, conf |-> ngram_result.score,
                  source |-> MatchSource.ngram]
            ELSE [cat |-> None, conf |-> 0, source |-> MatchSource.unmatched]
    IN  Cascade(ExactMatch(master_db, merchant), FuzzyMatch(master_db, merchant),
                NGramMatch(master_db, merchant))

(***************************************************************************)
(* Rule-based post-processor (rules.py)                                    *)
(*                                                                         *)
(* Categories:  "VehicleFuel" = vehicle upkeep (fuel), "VehicleOther" =     *)
(* vehicle upkeep (other), "Meal" = lunch, "UsageFee" = usage fees,        *)
(* "WelfareMedical" = welfare (medical), "Supplies" = consumables,         *)
(* "Commission" = commissions, "Tax" = taxes, "Etc" = other;               *)
(* "Unclassified" is the sentinel of a failed prediction.  A lower-case    *)
(* Latin letter is written with a leading underscore ("_a"), which keeps   *)
(* it apart from the romanised Korean syllables.                           *)
(***************************************************************************)
\* the nine labels of ClaudeClassifier.SYSTEM_PROMPT
Taxonomy ==
    {"VehicleFuel", "VehicleOther", "Meal", "UsageFee", "WelfareMedical", "Supplies",
     "Commission", "Tax", "Etc"}

Unclassified == "Unclassified"

\* str.lower() on one character
LowerOf ==
    [A |-> "_a", B |-> "_b", C |-> "_c", D |-> "_d", E |-> "_e", F |-> "_f", G |-> "_g",
     H |-> "_h", I |-> "_i", J |-> "_j", K |-> "_k", L |-> "_l", M |-> "_m", N |-> "_n",
     O |-> "_o", P |-> "_p", Q |-> "_q", R |-> "_r", S |-> "_s", T |-> "_t", U |-> "_u",
     V |-> "_v", W |-> "_w", X |-> "_x", Y |-> "_y", Z |-> "_z"]

LowerChar(c) == IF c \in DOMAIN LowerOf THEN LowerOf[c] ELSE c

\* str.lower()
Lower(t) == [i \in 1..Len(t) |-> LowerChar(t[i])]

\* needle in text
Contains(text, needle) ==
    \E i \in 0..(Len(text) - Len(needle)) : SubSeq(text, i + 1, i + Len(needle)) = needle

\* RuleEngine._get_default_rules, in the dict's iteration order
keyword_rules ==
    << [category |-> "VehicleFuel",
        keywords |-> <<
          <<"ju", "yu", "so">>, <<"G", "S", "kal", "teg", "seu">>,
          <<"S", "-", "O", "I", "L">>, <<"o", "il", "baeng", "keu">>,
          <<"S", "K", "e", "neo", "ji">>, <<"hyeon", "dae", "o", "il">>,
          <<"hyo", "chang", "e", "neo", "ji">>, <<"sel", "peu", "ju", "yu">>,
          <<"gyeong", "yu">>, <<"hwi", "bal", "yu">>, <<"kal", "teg", "seu">>,
          <<"e", "neo", "ji">>, <<"o", "il">>, <<"ju", "yu">> >>],
       [category |-> "VehicleOther",
        keywords |-> <<
          <<"ha", "i", "pae", "seu">>, <<"tol", "ge", "i", "teu">>,
          <<"I", "C", "ju", "yu", "so">>, <<"ju", "cha">>, <<"se", "cha">>,
          <<"ja", "dong", "cha", "jeong", "bi">>, <<"ja", "dong", "cha", "geom", "sa">>,
          <<"ta", "i", "eo">>, <<"tong", "haeng">>, <<"pa", "king">>,
          <<"ju", "cha", "jang">> >>],
       [category |-> "Meal",
        keywords |-> <<
          <<"maeg", "do", "nal", "deu">>, <<"ros", "de", "ri", "a">>,
          <<"beo", "geo", "king">>, <<"sseo", "beu", "we", "i">>,
          <<"seo", "beu", "we", "i">>, <<"seu", "ta", "beog", "seu">>, <<"i", "di", "ya">>,
          <<"keo", "pi">>, <<"ka", "pe">>, <<"sig", "dang">>, <<"ban", "jeom">>,
          <<"jung", "hwa", "yo", "ri">>, <<"sun", "dae", "gug">>,
          <<"seol", "reong", "tang">>, <<"bon", "jug">>, <<"gim", "bab">>,
          <<"tteog", "bokk", "i">>, <<"ra", "myeon">>, <<"gug", "su">>, <<"bab">>,
          <<"don", "kka", "seu">>, <<"chi", "kin">> >>],
       [category |-> "UsageFee",
        keywords |-> <<
          <<"han", "geul", "gwa", "keom", "pyu", "teo">>,
          <<"M", "_i", "_c", "_r", "_o", "_s", "_o", "_f", "_t">>,
          <<"A", "_d", "_o", "_b", "_e">>, <<"o", "pi", "seu", "3", "6", "5">>,
          <<"A", "W", "S">>, <<"keul", "ra", "u", "deu">>, <<"ja", "dong", "gyeol", "je">>,
          <<"hyu", "dae", "pon">>, <<"me", "si", "ji">>, <<"gu", "dog">>,
          <<"jeong", "gi", "gyeol", "je">> >>],
       [category |-> "WelfareMedical",
        keywords |-> <<
          <<"yag", "gug">>, <<"byeong", "won">>, <<"ui", "won">>, <<"han", "ui", "won">>,
          <<"chi", "gwa">>, <<"ui", "ryo">> >>],
       [category |-> "Supplies",
        keywords |-> <<
          <<"da", "i", "so">>, <<"mun", "gu">>, <<"to", "neo">>, <<"ing", "keu">>,
          <<"bog", "sa", "yong", "ji">>, <<"ku", "pang">>, <<"i", "ma", "teu">>,
          <<"hom", "peul", "reo", "seu">>, <<"bi", "pum">>, <<"sa", "mu", "yong", "pum">> >>],
       [category |-> "Commission",
        keywords |-> <<
          <<"bo", "jeung", "bo", "heom">>, <<"gi", "sul", "bo", "jeung", "gi", "geum">>,
          <<"beob", "won">>, <<"u", "che", "gug">>, <<"su", "su", "ryo">>,
          <<"bo", "jeung", "ryo">> >>],
       [category |-> "Tax",
        keywords |-> <<
          <<"gug", "se">>, <<"bu", "ga", "ga", "chi", "se">>, <<"beob", "in", "se">>,
          <<"ji", "bang", "se">>, <<"ja", "dong", "cha", "se">>, <<"jae", "san", "se">>,
          <<"se", "geum">> >>] >>

\* RuleEngine._match_keywords: the fuel-station keyword first, then the first
\* category of the table one of whose keywords occurs in the merchant
_match_keywords(merchant) ==
    LET Hit(merchant_lower, c) ==
            \E k \in 1..Len(keyword_rules[c].keywords) :
                Contains(merchant_lower, Lower(keyword_rules[c].keywords[k]))
        FirstHit(c) == IF c = 0 THEN None ELSE keyword_rules[c].category
        Match(merchant_lower) ==
            IF Contains(merchant_lower, <<"ju", "yu", "so">>) THEN "VehicleFuel"
            ELSE FirstHit(First({c \in 1..Len(keyword_rules) : Hit(merchant_lower, c)}))
    IN  Match(Lower(merchant))

\* the boost without its cap
BoostUncapped(confidence) == confidence + 100

\* min(1.0, confidence + 0.1)
Boost(confidence) == IF confidence + 100 > 1000 THEN 1000 ELSE confidence + 100

\* validate without the confidence test: the keyword category wins every
\* disagreement
validateRuleWins(merchant, predicted_category, confidence) ==
    LET Checked(rule_category) ==
            IF rule_category = None
            THEN [category |-> predicted_category, confidence |-> confidence,
                  rule_applied |-> FALSE]
            ELSE IF rule_category = predicted_category
            THEN [category |-> predicted_category, confidence |-> Boost(confidence),
                  rule_applied |-> TRUE]
            ELSE [category |-> rule_category, confidence |-> 800, rule_applied |-> TRUE]
    IN  Checked(_match_keywords(merchant))

\* RuleEngine.validate
validate(merchant, predicted_category, confidence) ==
    LET Checked(rule_category) ==
            IF rule_category = None
            THEN [category |-> predicted_category, confidence |-> confidence,
                  rule_applied |-> FALSE]
            ELSE IF rule_category = predicted_category
            THEN [category |-> predicted_category, confidence |-> Boost(confidence),
                  rule_applied |-> TRUE]
            ELSE IF confidence < 700
            THEN [category |-> rule_category, confidence |-> 800, rule_applied |-> TRUE]
            ELSE [category |-> predicted_category, confidence |-> confidence,
                  rule_applied |-> FALSE]
    IN  Checked(_match_keywords(merchant))

\* RuleEngine.apply_amount_rules
apply_amount_rules(merchant, category, amount) ==
    IF amount > 0 /\ amount >= 50000 /\ Contains(merchant, <<"ju", "yu">>)
       /\ category # "VehicleFuel"
    THEN [category |-> "VehicleFuel", confidence |-> 750, rule_applied |-> TRUE]
    ELSE IF amount > 0 /\ amount <= 30000
            /\ (\/ Contains(merchant, <<"sig", "dang">>)
                \/ Contains(merchant, <<"ka", "pe">>)
                \/ Contains(merchant, <<"keo", "pi">>))
            /\ category # "Meal"
    THEN [category |-> "Meal", confidence |-> 750, rule_applied |-> TRUE]
    ELSE [category |-> category, confidence |-> 1000, rule_applied |-> FALSE]

\* a call without context (context = None)
NoContext == [given |-> FALSE, amount |-> 0]

\* process with the amount rules evaluated on the predicted category instead of
\* the outcome of the keyword validation
processOnPredicted(merchant, category, confidence, context) ==
    LET Amount(result, amount_result) ==
            IF context.given /\ amount_result.rule_applied THEN amount_result
            ELSE result
    IN  Amount(validate(merchant, category, confidence),
               apply_amount_rules(merchant, category, context.amount))

\* PostProcessor.process; context.given says whether the caller passed a context
\* with the amount
process(merchant, category, confidence, context) ==
    LET Amount(result, amount_result) ==
            IF context.given /\ amount_result.rule_applied THEN amount_result
            ELSE result
        Validated(result) ==
            Amount(result, apply_amount_rules(merchant, result.category, context.amount))
    IN  Validated(validate(merchant, category, confidence))

(***************************************************************************)
(* AI fallback (claude_api.py)                                             *)
(*                                                                         *)
(* A provider response text is a sequence of tokens: tags, words, numbers  *)
(* and white space.  "</category" is a closing tag cut short before its    *)
(* ">", "<predictio" what a slice of the text leaves of an opening tag.    *)
(***************************************************************************)
TagNames == {"prediction", "category", "confidence", "reasoning"}

OpenTag == [prediction |-> "<prediction>", category |-> "<category>",
            confidence |-> "<confidence>", reasoning |-> "<reasoning>"]

CloseTag == [prediction |-> "</prediction>", category |-> "</category>",
             confidence |-> "</confidence>", reasoning |-> "</reasoning>"]

IsOpen(tok) == \E n \in TagNames : OpenTag[n] = tok
IsClose(tok) == \E n \in TagNames : CloseTag[n] = tok
NameOf(tok) == CHOOSE n \in TagNames : OpenTag[n] = tok \/ CloseTag[n] = tok

\* the token holds a ">"
HasGt(tok) == IsOpen(tok) \/ IsClose(tok)

\* the token holds a "<"
HasLt(tok) == IsOpen(tok) \/ IsClose(tok) \/ tok \in {"</category", "<predictio"}

IsWs(tok) == tok \in {" ", "\n"}

\* the token matches [\d.]+
DigitsDots(tok) == tok \in {"0.95", "0.5", "1.5", "1.2.3"}

\* the number of characters of a token that may stand before "<prediction>"
TokLen(tok) ==
    CASE tok = "Sure:" -> 5
      [] tok = "Here is the prediction:" -> 23
      [] IsWs(tok) -> 1
      [] tok = "<prediction>" -> 12
      [] tok = "</prediction>" -> 13
      [] tok \in {"<category>", "</category"} -> 10
      [] tok = "</category>" -> 11
      [] tok \in {"<reasoning>"} -> 11
      [] tok \in {"<confidence>", "</reasoning>"} -> 12
      [] tok = "</confidence>" -> 13
      [] OTHER -> 4      \* a word; no word but the two above stands before a tag

RECURSIVE CharLen(_)
CharLen(ts) == IF ts = <<>> THEN 0 ELSE TokLen(Head(ts)) + CharLen(Tail(ts))

\* str.strip() on a token sequence
RECURSIVE StripWs(_)
StripWs(ts) ==
    IF ts # <<>> /\ IsWs(Head(ts)) THEN StripWs(Tail(ts))
    ELSE IF ts # <<>> /\ IsWs(ts[Len(ts)]) THEN StripWs(SubSeq(ts, 1, Len(ts) - 1))
    ELSE ts

\* the string a stripped field holds: the responses considered put one word
\* at most into a field
TextOf(ts) == IF ts = <<>> THEN "" ELSE ts[1]

\* str.find: the index of the first token tok, 0 when it is absent
Find(ts, tok) ==
    LET is == {i \in 1..Len(ts) : ts[i] = tok}
    IN  IF is = {} THEN 0 ELSE CHOOSE i \in is : \A j \in is : i <= j

\* float(text): thousandths, or an error
ParseFloat(text) ==
    CASE text = "0.95" -> [ok |-> TRUE, value |-> 950]
      [] text = "0.5" -> [ok |-> TRUE, value |-> 500]
      [] text = "1.5" -> [ok |-> TRUE, value |-> 1500]
      [] text = "-0.5" -> [ok |-> TRUE, value |-> -500]
      [] OTHER -> [ok |-> FALSE, value |-> 0]

\* the slice response[start:end] of _parse_response, start and end counted in
\* characters: end is 12 when "</prediction>" is missing (find gives -1)
ExtractPrediction(ts) ==
    LET o == Find(ts, "<prediction>")
        c == Find(ts, "</prediction>")
        start == CharLen(SubSeq(ts, 1, o - 1))
        end == IF c = 0 THEN 12 ELSE CharLen(SubSeq(ts, 1, c))
    IN  IF o = 0 \/ end <= start THEN ts
        ELSE IF c # 0 THEN SubSeq(ts, o, c)
        ELSE IF start = 0 THEN <<"<prediction>">>
        ELSE <<"<predictio">>

\* xml.etree.ElementTree: one element, from its opening tag to its closing tag
RECURSIVE ParseElement(_)
RECURSIVE ParseContent(_, _, _, _)
ParseElement(ts) ==
    IF ts = <<>> \/ ~IsOpen(Head(ts)) THEN [ok |-> FALSE]
    ELSE ParseContent(NameOf(Head(ts)), Tail(ts), <<>>, <<>>)

ParseContent(name, ts, text, children) ==
    IF ts = <<>> THEN [ok |-> FALSE]
    ELSE IF Head(ts) = CloseTag[name]
    THEN [ok |-> TRUE, rest |-> Tail(ts),
          elem |-> [tag |-> name, text |-> text, children |-> children]]
    ELSE IF IsOpen(Head(ts))
    THEN LET child == ParseElement(ts)
         IN  IF child.ok
             THEN ParseContent(name, child.rest, text, Append(children, child.elem))
             ELSE [ok |-> FALSE]
    ELSE IF HasLt(Head(ts)) THEN [ok |-> FALSE]
    ELSE ParseContent(name, Tail(ts),
                      IF children = <<>> THEN Append(text, Head(ts)) ELSE text, children)

\* ET.fromstring: the text is one element and nothing but white space after it
FromString(ts) ==
    LET r == ParseElement(ts)
    IN  IF r.ok /\ StripWs(r.rest) = <<>> THEN [ok |-> TRUE, root |-> r.elem]
        ELSE [ok |-> FALSE]

\* root.find(name): the first child with that tag; found = FALSE stands for None
FindChild(root, name) ==
    LET is == {i \in 1..Len(root.children) : root.children[i].tag = name}
    IN  IF is = {} THEN [found |-> FALSE, text |-> <<>>]
        ELSE [found |-> TRUE,
              text |-> root.children[CHOOSE i \in is : \A j \in is : i <= j].text]

\* re.search(r'<name>\s*(...)\s*</name>'): the content of the first complete
\* name element that holds text and no "<"; numeric asks for [\d.]+ in place of
\* [^<]+?
SearchField(ts, name, numeric) ==
    LET Next(i) == First({j \in (i + 1)..Len(ts) : HasLt(ts[j])})
        Content(i, j) == IF j > i + 1 /\ ts[j] = CloseTag[name]
                         THEN SubSeq(ts, i + 1, j - 1) ELSE <<>>
        Good(c) == /\ c # <<>>
                   /\ numeric => /\ Len(StripWs(c)) = 1
                                 /\ DigitsDots(StripWs(c)[1])
        Match(i) == IF i = 0 THEN [found |-> FALSE, group |-> <<>>]
                    ELSE [found |-> TRUE, group |-> StripWs(Content(i, Next(i)))]
    IN  Match(First({i \in 1..Len(ts) :
                        ts[i] = OpenTag[name] /\ Good(Content(i, Next(i)))}))

\* response.split('\n')
RECURSIVE SplitLines(_, _)
SplitLines(ts, line) ==
    IF ts = <<>> THEN <<line>>
    ELSE IF Head(ts) = "\n" THEN <<line>> \o SplitLines(Tail(ts), <<>>)
    ELSE SplitLines(Tail(ts), Append(line, Head(ts)))

\* name in line.lower()
Mentions(line, name) ==
    \E i \in 1..Len(line) :
        \/ line[i] \in {OpenTag[name], CloseTag[name]}
        \/ name = "category" /\ line[i] = "</category"

\* re.search(r'>(...)<', line): the text between the first ">" and the "<" after
\* it; numeric asks for [\d.]+ in place of [^<]+
SearchLine(line, numeric) ==
    LET Good(i) == /\ HasGt(line[i])
                   /\ i + 2 <= Len(line)
                   /\ ~HasLt(line[i + 1])
                   /\ IF numeric
                      THEN DigitsDots(line[i + 1]) /\ HasLt(line[i + 2])
                      ELSE \E j \in (i + 2)..Len(line) : HasLt(line[j])
        End(i) == First({j \in (i + 2)..Len(line) : HasLt(line[j])})
        Match(i) == IF i = 0 THEN [found |-> FALSE, group |-> <<>>]
                    ELSE [found |-> TRUE, group |-> SubSeq(line, i + 1, End(i) - 1)]
    IN  Match(First({i \in 1..Len(line) : Good(i)}))

\* the line-by-line pass of _fallback_parse over lines k.., acc = [category, confidence]
RECURSIVE ScanLines(_, _, _)
ScanLines(lines, k, acc) ==
    LET Category(match) ==
            IF match.found THEN [acc EXCEPT !.category = TextOf(StripWs(match.group))]
            ELSE acc
        Confidence(match, num) ==
            IF match.found /\ num.ok THEN [acc EXCEPT !.confidence = num.value]
            ELSE acc
        Number(match) == Confidence(match, ParseFloat(TextOf(match.group)))
        Line(line, anyGt) ==
            IF Mentions(line, "category") /\ anyGt
            THEN Category(SearchLine(line, FALSE))
            ELSE IF Mentions(line, "confidence") /\ anyGt
            THEN Number(SearchLine(line, TRUE))
            ELSE acc
    IN  IF k > Len(lines) THEN acc
        ELSE ScanLines(lines, k + 1,
                       Line(lines[k], \E i \in 1..Len(lines[k]) : HasGt(lines[k][i])))

\* ClaudeClassifier._fallback_parse
_fallback_parse(response, error) ==
    LET Scanned(category, confidence) ==
            IF category = Unclassified
            THEN ScanLines(SplitLines(response, <<>>), 1,
                           [category |-> category, confidence |-> confidence])
            ELSE [category |-> category, confidence |-> confidence]
        Confidence(confidence_match, num) ==
            IF confidence_match.found /\ num.ok THEN num.value ELSE 0
        Result(category_match, confidence_match, reasoning_match) ==
            Scanned(IF category_match.found THEN TextOf(category_match.group)
                    ELSE Unclassified,
                    Confidence(confidence_match,
                               ParseFloat(TextOf(confidence_match.group))))
            @@ [reasoning |-> IF reasoning_match.found /\ reasoning_match.group # <<>>
                              THEN reasoning_match.group
                              ELSE <<"XML parse failed:", error>>]
    IN  Result(SearchField(response, "category", FALSE),
               SearchField(response, "confidence", TRUE),
               SearchField(response, "reasoning", FALSE))

\* ClaudeClassifier._parse_response
_parse_response(text) ==
    LET Fields(response, category, confidence, reasoning, num) ==
            IF confidence.found /\ confidence.text # <<>> /\ ~num.ok
            THEN _fallback_parse(response, "ValueError")
            ELSE [category |-> IF category.found /\ category.text # <<>>
                               THEN TextOf(StripWs(category.text)) ELSE Unclassified,
                  confidence |-> IF confidence.found /\ confidence.text # <<>>
                                 THEN num.value ELSE 0,
                  reasoning |-> IF reasoning.found /\ reasoning.text # <<>>
                                THEN StripWs(reasoning.text) ELSE <<"no reason">>]
        Children(response, category, confidence, reasoning) ==
            Fields(response, category, confidence, reasoning,
                   ParseFloat(TextOf(StripWs(confidence.text))))
        Root(response, doc) ==
            IF ~doc.ok THEN _fallback_parse(response, "ParseError")
            ELSE Children(response, FindChild(doc.root, "category"),
                          FindChild(doc.root, "confidence"),
                          FindChild(doc.root, "reasoning"))
        Extracted(response) == Root(response, FromString(response))
    IN  Extracted(ExtractPrediction(StripWs(text)))

\* the provider's answer to messages.create: the call raises, or it returns a
\* message whose content list is empty or holds one text block
Raises(error) == [kind |-> "raise", error |-> error, content |-> <<>>]
Message(content) == [kind |-> "message", error |-> "", content |-> content]

\* message.usage of every message
Usage == [input_tokens |-> 3, output_tokens |-> 2]

\* the body of the try block of predict: a value, or the exception it raises
TryPredict(st, answer) ==
    LET Counted(s) == [s EXCEPT !.total_calls = @ + 1,
                                !.total_input_tokens = @ + Usage.input_tokens,
                                !.total_output_tokens = @ + Usage.output_tokens]
        Succeeded(s) == [s EXCEPT !.successful_calls = @ + 1]
    IN  IF answer.kind = "raise"
        THEN [raised |-> TRUE, error |-> answer.error, stats |-> st]
        ELSE IF answer.content = <<>>
        THEN [raised |-> TRUE, error |-> "IndexError", stats |-> Counted(st)]
        ELSE [raised |-> FALSE, error |-> "", stats |-> Succeeded(Counted(st)),
              value |-> _parse_response(answer.content[1])
                            @@ [api_usage |-> <<Usage>>]]

\* predict with a second attempt after a failure: the handler of the first
\* failure calls the provider again, which fails the same way
predictRetried(st, answer) ==
    LET Sentinel(s, error) ==
            [raised |-> FALSE, stats |-> [s EXCEPT !.failed_calls = @ + 1],
             value |-> [category |-> Unclassified, confidence |-> 0,
                        reasoning |-> <<"API error:", error>>, api_usage |-> <<>>]]
        Second(again) ==
            IF again.raised THEN Sentinel(again.stats, again.error)
            ELSE [raised |-> FALSE, stats |-> again.stats, value |-> again.value]
        Except(try) ==
            IF try.raised
            THEN Second(TryPredict([try.stats EXCEPT !.failed_calls = @ + 1], answer))
            ELSE [raised |-> FALSE, stats |-> try.stats, value |-> try.value]
    IN  Except(TryPredict(st, answer))

\* ClaudeClassifier.predict: the try block and its except Exception handler;
\* raised says whether an exception leaves predict
predict(st, answer) ==
    LET Except(try) ==
            IF try.raised
            THEN [raised |-> FALSE,
                  stats |-> [try.stats EXCEPT !.failed_calls = @ + 1],
                  value |-> [category |-> Unclassified, confidence |-> 0,
                             reasoning |-> <<"API error:", try.error>>,
                             api_usage |-> <<>>]]
            ELSE [raised |-> FALSE, stats |-> try.stats, value |-> try.value]
    IN  Except(TryPredict(st, answer))

(***************************************************************************)
(* Classification pipeline (classifier.py)                                 *)
(***************************************************************************)
\* DataFrame.drop_duplicates(subset = key, keep = "first")
RECURSIVE DropDuplicatesFirst(_)
DropDuplicatesFirst(df) ==
    IF df = <<>> THEN <<>>
    ELSE LET last == df[Len(df)]
             front == SubSeq(df, 1, Len(df) - 1)
         IN  IF \E j \in 1..Len(front) : front[j].key = last.key
             THEN DropDuplicatesFirst(front)
             ELSE Append(DropDuplicatesFirst(front), last)

\* the test of the required columns in _load_master_db; the columns of a file
\* are the fields of its rows
HasRequiredColumns(file) ==
    \A i \in 1..Len(file) : {"key", "cat"} \subseteq DOMAIN file[i]

\* CardClassifier._load_master_db: duplicates of the keys as written are
\* dropped, then every key is normalized by a Preprocessor without synonyms
_load_master_db(file) ==
    LET Normalized(df) ==
            [i \in 1..Len(df) |->
                [key |-> normalize(df[i].key, SynonymTable("empty")), cat |-> df[i].cat]]
    IN  Normalized(DropDuplicatesFirst(ReadCsv(file)))

\* select_fewshot_examples(master_db, 5, "diverse") divides by the number of
\* categories of the store
FewshotRaises(master_db) == master_db = <<>>

\* CardClassifier.classify_single: the provider answers with answer if it is
\* asked
classify_single(cl, st, merchant, context, answer) ==
    LET Updated(base, claude_result, processed) ==
            [base EXCEPT !.called = TRUE,
                         !.stats = claude_result.stats,
                         !.category = processed.category,
                         !.confidence = processed.confidence,
                         !.source = IF processed.rule_applied THEN "Claude+Rule"
                                    ELSE "Claude",
                         !.has_reason = TRUE,
                         !.reasoning = claude_result.value.reasoning]
        Predicted(base, claude_result) ==
            Updated(base, claude_result,
                    process(base.merchant, claude_result.value.category,
                            claude_result.value.confidence, context))
        Result(base) ==
            IF base.source = MatchSource.unmatched /\ cl.enable_claude
            THEN IF FewshotRaises(cl.master_db) THEN [base EXCEPT !.raised = TRUE]
                 ELSE Predicted(base, predict(st, answer))
            ELSE base
        Matched(normalized, matched) ==
            Result([merchant_raw |-> merchant, merchant |-> normalized,
                    context |-> context, raised |-> FALSE,
                    cascade |-> matched, called |-> FALSE, stats |-> st,
                    category |-> matched.cat, confidence |-> matched.conf,
                    source |-> matched.source, has_reason |-> FALSE, reasoning |-> <<>>])
        Normalized(normalized) ==
            Matched(normalized, HybridMatch(cl.master_db, normalized))
    IN  Normalized(normalize(merchant, SynonymTable(cl.synonym_map)))

(***************************************************************************)
(* Rule engine on its own                                                  *)
(***************************************************************************)
RuleMerchants ==
    { <<"ju", "yu", "so">>, <<"x", "ka", "pe">>, <<"S", "K", "e", "neo", "ji">>,
      <<"sae", "ro", "un">> }

RuleCategories == {"VehicleFuel", "Meal", "Dining", Unclassified}

\* confidences in thousandths, inside and outside [0, 1]
RuleConfidences == {0 - 500, 0, 500, 650, 700, 900, 950, 1000, 1500}

\* no context, and contexts with an amount: none, low, the two limits of the
\* amount rules, and high
Contexts ==
    {NoContext} \cup [given : {TRUE}, amount : {0, 20000, 30000, 50000, 60000}]

InitRules ==
    /\ ruleCall \in [pc : {"start"}, merchant : RuleMerchants, category : RuleCategories,
                     confidence : RuleConfidences, context : Contexts]
    /\ IdleNorm
    /\ IdleMatch
    /\ IdleProcs
    /\ IdleFewshot
    /\ IdleReview
    /\ IdleFeedback
    /\ IdleCls

Returned(op, out) ==
    [pc |-> op, merchant |-> ruleCall.merchant, category |-> ruleCall.category,
     confidence |-> ruleCall.confidence, context |-> ruleCall.context, out |-> out]

\* RuleEngine.validate(merchant, predicted_category, confidence)
Validate ==
    /\ ruleCall.pc = "start"
    /\ ruleCall' = Returned("validate",
                            validate(ruleCall.merchant, ruleCall.category,
                                     ruleCall.confidence))
    /\ UNCHANGED <<normVars, fbVars, clsVars, fewVars, revVars, matchVars, procVars>>

\* RuleEngine.apply_amount_rules(merchant, category, amount)
ApplyAmountRules ==
    /\ ruleCall.pc = "start"
    /\ ruleCall.context.given
    /\ ruleCall' = Returned("apply_amount_rules",
                            apply_amount_rules(ruleCall.merchant, ruleCall.category,
                                               ruleCall.context.amount))
    /\ UNCHANGED <<normVars, fbVars, clsVars, fewVars, revVars, matchVars, procVars>>

\* PostProcessor.process(merchant, category, confidence, context)
Process ==
    /\ ruleCall.pc = "start"
    /\ ruleCall' = Returned("process",
                            process(ruleCall.merchant, ruleCall.category,
                                    ruleCall.confidence, ruleCall.context))
    /\ UNCHANGED <<normVars, fbVars, clsVars, fewVars, revVars, matchVars, procVars>>

NextRules == Validate \/ ApplyAmountRules \/ Process

SpecRules == InitRules /\ [][NextRules]_vars

\* C10: when the keyword category of the merchant equals the predicted
\* category, validate returns that category with rule_applied set and the
\* confidence raised by 0.1 but no higher than 1.0; for an input confidence in
\* [0, 1] the returned confidence never exceeds 1.0.
C10_BoostCapped ==
    (/\ ruleCall.pc = "validate"
     /\ _match_keywords(ruleCall.merchant) = ruleCall.category)
    => /\ ruleCall.out.category = ruleCall.category
       /\ ruleCall.out.rule_applied
       /\ ruleCall.out.confidence =
              (IF ruleCall.confidence + 100 < 1000 THEN ruleCall.confidence + 100
               ELSE 1000)
       /\ (ruleCall.confidence >= 0 /\ ruleCall.confidence <= 1000)
              => ruleCall.out.confidence <= 1000

\* the case of C10: a prediction of 0.95 that the keyword rule agrees with has
\* been validated and came back as 1.0
C10_Witness ==
    /\ ruleCall.pc = "validate"
    /\ _match_keywords(ruleCall.merchant) = ruleCall.category
    /\ ruleCall.confidence = 950
    /\ ruleCall.out.confidence = 1000
    /\ ruleCall.out.rule_applied

\* some keyword of the rule table occurs in the merchant
KeywordHits(merchant) ==
    \E c \in 1..Len(keyword_rules) :
        \E k \in 1..Len(keyword_rules[c].keywords) :
            Contains(Lower(merchant), Lower(keyword_rules[c].keywords[k]))

\* C11: in validate, a keyword category that differs from the predicted
\* category replaces it, at confidence 0.8 with rule_applied set, when the
\* predicted confidence is below 0.7, and leaves category and confidence as
\* they were, rule_applied unset, when it is 0.7 or more; a merchant no
\* keyword occurs in passes through unchanged with rule_applied unset.
C11_KeywordValidation ==
    ruleCall.pc = "validate" =>
        /\ (/\ KeywordHits(ruleCall.merchant)
            /\ _match_keywords(ruleCall.merchant) # ruleCall.category
            /\ ruleCall.confidence < 700)
           => ruleCall.out = [category |-> _match_keywords(ruleCall.merchant),
                              confidence |-> 800, rule_applied |-> TRUE]
        /\ (/\ KeywordHits(ruleCall.merchant)
            /\ _match_keywords(ruleCall.merchant) # ruleCall.category
            /\ ruleCall.confidence >= 700)
           => ruleCall.out = [category |-> ruleCall.category,
                              confidence |-> ruleCall.confidence,
                              rule_applied |-> FALSE]
        /\ ~KeywordHits(ruleCall.merchant)
           => ruleCall.out = [category |-> ruleCall.category,
                              confidence |-> ruleCall.confidence,
                              rule_applied |-> FALSE]

\* the case of C11: a Dining prediction at 0.9 for a cafe, whose keyword
\* category is Meal, has been validated and came back as it was
C11_Witness ==
    /\ ruleCall.pc = "validate"
    /\ ruleCall.merchant = <<"x", "ka", "pe">>
    /\ ruleCall.category = "Dining"
    /\ ruleCall.confidence = 900
    /\ ruleCall.out.category = "Dining"
    /\ ruleCall.out.confidence = 900
    /\ ~ruleCall.out.rule_applied

\* C12: process evaluates the amount rules on the outcome of the keyword
\* validation, and only for a context with an amount above 0: a fuel keyword
\* with an amount of 50000 or more and a category that is not fuel gives fuel,
\* a food keyword with an amount of 30000 or less and a category that is not
\* meal gives meal, both at confidence 0.75 with rule_applied set; otherwise
\* the result is the outcome of the keyword validation, confidence included.
C12_AmountRulesAfterKeywords ==
    ruleCall.pc = "process" =>
        LET Food(m) == \/ Contains(m, <<"sig", "dang">>)
                       \/ Contains(m, <<"ka", "pe">>)
                       \/ Contains(m, <<"keo", "pi">>)
            Holds(m, known, amount, validated) ==
                IF /\ known /\ amount >= 50000 /\ Contains(m, <<"ju", "yu">>)
                   /\ validated.category # "VehicleFuel"
                THEN ruleCall.out = [category |-> "VehicleFuel", confidence |-> 750,
                                     rule_applied |-> TRUE]
                ELSE IF known /\ amount <= 30000 /\ Food(m) /\ validated.category # "Meal"
                THEN ruleCall.out = [category |-> "Meal", confidence |-> 750,
                                     rule_applied |-> TRUE]
                ELSE ruleCall.out = validated
        IN  Holds(ruleCall.merchant,
                  ruleCall.context.given /\ ruleCall.context.amount > 0,
                  ruleCall.context.amount,
                  validate(ruleCall.merchant, ruleCall.category, ruleCall.confidence))

\* the case of C12: a Dining prediction at 0.5 for a cafe with an amount of
\* 30000 has been processed; the keyword validation made it Meal at 0.8, so no
\* amount rule triggered and the result is the validation's
C12_Witness ==
    /\ ruleCall.pc = "process"
    /\ ruleCall.merchant = <<"x", "ka", "pe">>
    /\ ruleCall.category = "Dining"
    /\ ruleCall.confidence = 500
    /\ ruleCall.context.given /\ ruleCall.context.amount = 30000
    /\ ruleCall.out = [category |-> "Meal", confidence |-> 800, rule_applied |-> TRUE]

\* C13: for every merchant, predicted category, amount and predicted
\* confidence of 0.7 or more, process returns the predicted category, at a
\* confidence no lower than the predicted one.
C13_ConfidentPredictionKept ==
    (ruleCall.pc = "process" /\ ruleCall.confidence >= 700)
    => /\ ruleCall.out.category = ruleCall.category
       /\ ruleCall.out.confidence >= ruleCall.confidence

\* the case of C13: a prediction at 0.7 or more, which the keyword of the
\* merchant disagrees with, has been processed with an amount above 0
C13_Witness ==
    /\ ruleCall.pc = "process"
    /\ ruleCall.confidence >= 700
    /\ ruleCall.context.given /\ ruleCall.context.amount > 0
    /\ KeywordHits(ruleCall.merchant)
    /\ _match_keywords(ruleCall.merchant) # ruleCall.category

(***************************************************************************)
(* AI fallback on its own                                                  *)
(***************************************************************************)
MaxPredicts == 2

\* <name>content</name>
Field(name, content) == <<OpenTag[name]>> \o content \o <<CloseTag[name]>>

Absent == <<>>

CategoryFields ==
    {Absent, <<"<category>", "Meal", "</category">>}
        \cup {Field("category", c) : c \in {<<"Meal">>, <<" ">>}}

ConfidenceFields ==
    {Absent} \cup {Field("confidence", c) : c \in {<<"0.95">>, <<"high">>, <<"1.2.3">>}}

ReasoningFields == {Absent, Field("reasoning", <<"because">>)}

\* the fields of a response, separated by sep
Body(c, k, r, sep) == c \o sep \o k \o sep \o r

\* what the provider puts around the fields: the element, whole or cut short
\* before its closing tag, with or without words before it, or nothing
Wrapped(c, k, r) ==
    { <<"<prediction>">> \o Body(c, k, r, <<>>) \o <<"</prediction>">>,
      <<"Sure:", "\n", "<prediction>", "\n">> \o Body(c, k, r, <<"\n">>)
          \o <<"\n", "</prediction>", "\n">>,
      <<"<prediction>", "\n">> \o Body(c, k, r, <<"\n">>),
      <<"Sure:", "\n", "<prediction>">> \o Body(c, k, r, <<>>),
      <<"Here is the prediction:", "\n", "<prediction>">> \o Body(c, k, r, <<>>),
      Body(c, k, r, <<"\n">>) }

Texts ==
    UNION {Wrapped(c, k, r) :
              c \in CategoryFields, k \in ConfidenceFields, r \in ReasoningFields}
        \cup {<<"Sure:">>}

Errors == {"Timeout", "AuthenticationError"}

Answers ==
    {Raises(e) : e \in Errors} \cup {Message(<<>>)} \cup {Message(<<t>>) : t \in Texts}

InitPredict ==
    /\ stats = ZeroStats
    /\ prediction = [made |-> FALSE]
    /\ calls = 0
    /\ classifier = [loaded |-> FALSE]
    /\ clsResult = [made |-> FALSE]
    /\ IdleNorm
    /\ IdleMatch
    /\ IdleProcs
    /\ IdleFewshot
    /\ IdleReview
    /\ IdleFeedback
    /\ IdleRules

\* one call of ClaudeClassifier.predict, the provider answering with answer
Predict ==
    \E answer \in Answers :
        LET Return(ret) ==
                /\ stats' = ret.stats
                /\ prediction' = [made |-> TRUE, raised |-> ret.raised, answer |-> answer]
                                     @@ ret.value
        IN  /\ calls < MaxPredicts
            /\ calls' = calls + 1
            /\ Return(predict(stats, answer))
            /\ UNCHANGED <<classifier, clsResult>>
            /\ UNCHANGED <<normVars, fbVars, ruleVars, fewVars,
                           revVars, matchVars, procVars>>

\* ClaudeClassifier.reset_stats
ResetStats ==
    /\ stats # ZeroStats
    /\ stats' = ZeroStats
    /\ UNCHANGED <<classifier, prediction, clsResult, calls>>
    /\ UNCHANGED <<normVars, fbVars, ruleVars, fewVars, revVars, matchVars, procVars>>

NextPredict == Predict \/ ResetStats

SpecPredict == InitPredict /\ [][NextPredict]_vars

\* the text of an answer, empty when the provider sent none
TextOfAnswer(answer) ==
    IF answer.kind = "message" /\ answer.content # <<>> THEN answer.content[1] ELSE <<>>

\* the text holds no category, confidence or reasoning tag, whole or cut short
NoField(text) ==
    \A i \in 1..Len(text) :
        /\ text[i] # "</category"
        /\ (IsOpen(text[i]) \/ IsClose(text[i])) => NameOf(text[i]) = "prediction"

\* the text holds no markup at all
NoTag(text) == \A i \in 1..Len(text) : ~HasLt(text[i])

\* C5: predict never raises; the category and the rationale it returns are
\* never empty and the confidence is a number; for a response without any
\* field the result is the sentinel category with confidence 0.0, and for a
\* response without any markup (or no response at all) the rationale reports
\* the error.
C5_PredictNeverRaises ==
    prediction.made =>
        LET text == TextOfAnswer(prediction.answer)
        IN  /\ ~prediction.raised
            /\ prediction.category # ""
            /\ prediction.reasoning # <<>>
            /\ StripWs(prediction.reasoning) # <<>>
            /\ prediction.confidence \in Int
            /\ NoField(text) =>
                  (prediction.category = Unclassified /\ prediction.confidence = 0)
            /\ NoTag(text) =>
                  prediction.reasoning[1] \in {"XML parse failed:", "API error:"}

\* the case of C5: predict has returned on a response whose category element
\* holds white space only
C5_Witness ==
    /\ prediction.made
    /\ prediction.answer.kind = "message"
    /\ prediction.answer.content # <<>>
    /\ \E i \in 1..(Len(prediction.answer.content[1]) - 2) :
          SubSeq(prediction.answer.content[1], i, i + 2) = Field("category", <<" ">>)

\* C23: a predict call whose provider call raises returns the sentinel
\* (category unclassified, confidence 0.0, a rationale that names the error, no
\* usage data), adds exactly one to failed_calls and counts no further provider
\* call: total_calls, successful_calls and the token counters stay as they
\* were.
C23_FailureNotRetried ==
    [][(calls' = calls + 1 /\ prediction'.answer.kind = "raise")
       => /\ ~prediction'.raised
          /\ prediction'.category = Unclassified
          /\ prediction'.confidence = 0
          /\ prediction'.reasoning = <<"API error:", prediction'.answer.error>>
          /\ prediction'.api_usage = <<>>
          /\ stats' = [stats EXCEPT !.failed_calls = @ + 1]]_vars

\* the case of C23: the second of two predict calls met a provider that raised
C23_Witness ==
    /\ calls = 2
    /\ prediction.made
    /\ prediction.answer.kind = "raise"
    /\ stats.failed_calls >= 1

\* C30: after every sequence of predict calls, total_calls is the sum of
\* successful_calls and failed_calls.
C30_CountersConsistent ==
    stats.total_calls = stats.successful_calls + stats.failed_calls

\* the case of C30: predict calls have been made, one of them with a provider
\* that raised
C30_Witness ==
    /\ calls >= 1
    /\ prediction.made
    /\ stats.failed_calls >= 1
    /\ prediction.answer.kind = "raise"

(***************************************************************************)
(* The classifier over a store                                             *)
(***************************************************************************)
MaxClassifies == 1

\* keys as written in the store file: "xxx", "xxx(y-branch)" (which normalizes
\* to "xxx") and "xxxy" (fuzzy ratio 6/7 to "xxx")
ClsKeys ==
    { <<"x", "x", "x">>, <<"x", "x", "x", "(", "y", "jeom", ")">>,
      <<"x", "x", "x", "y">> }

\* category fields as written: labels, an empty field, a numeral
ClsCats == {"Meal", "Etc", "", "0"}

ClsStores == SeqsUpTo([key : ClsKeys, cat : ClsCats], MaxStore)

\* raw merchants: the three keys, "xxxxx" (n-gram similarity 1.0 and fuzzy
\* ratio 0.75 to "xxx"), a fuel station, a cafe, and a name no rule knows
ClsMerchants ==
    ClsKeys \cup { <<"x", "x", "x", "x", "x">>, <<"ju", "yu", "so">>, <<"ka", "pe">>,
                   <<"sae", "ro", "un">> }

ClsContexts == {NoContext} \cup [given : {TRUE}, amount : {20000, 60000}]

\* a complete response
Response(category, confidence) ==
    <<"<prediction>">> \o Field("category", category)
        \o Field("confidence", confidence) \o Field("reasoning", <<"because">>)
        \o <<"</prediction>">>

ClsAnswers ==
    {Raises("Timeout"), Message(<<>>), Message(<< <<"Sure:">> >>)}
        \cup {Message(<<Response(<<c>>, <<k>>)>>) :
                 c \in {"Meal", "Dining", "VehicleFuel"},
                 k \in {"0.95", "0.5", "1.5", "-0.5"}}

\* no provider was asked
NoAnswer == [kind |-> "none", error |-> "", content |-> <<>>]

\* a store file without the category column
ClsBadStores == { << [key |-> <<"x", "x", "x">>] >> }

InitClassify ==
    /\ masterDbFile \in ClsStores \cup ClsBadStores
    /\ feedbackLog = <<>>
    /\ backups = <<>>
    /\ now = 0
    /\ fbHistory = <<>>
    /\ IdleCls
    /\ IdleMatch
    /\ IdleProcs
    /\ IdleFewshot
    /\ IdleReview
    /\ IdleNorm
    /\ IdleRules

\* CardClassifier.__init__ as run_classify calls it: the store is loaded, the
\* Preprocessor gets config.SYNONYM_MAP, the AI fallback is on or off; a file
\* without a required column makes _load_master_db raise, and no classifier
\* comes to exist
Construct ==
    \E enable_claude \in BOOLEAN :
        /\ classifier = [loaded |-> FALSE]
        /\ classifier' =
              IF HasRequiredColumns(masterDbFile)
              THEN [loaded |-> TRUE, master_db |-> _load_master_db(masterDbFile),
                    synonym_map |-> "config", enable_claude |-> enable_claude]
              ELSE [loaded |-> FALSE, raised |-> "ValueError"]
        /\ stats' = ZeroStats
        /\ UNCHANGED <<prediction, clsResult, calls>>
        /\ UNCHANGED <<normVars, fbVars, ruleVars, fewVars, revVars, matchVars, procVars>>

\* one call of CardClassifier.classify_single(merchant, context)
Classify(merchant, context, answer) ==
    LET Return(r) ==
            /\ stats' = r.stats
            /\ clsResult' = [made |-> TRUE, answer |-> answer] @@ r
    IN  /\ classifier.loaded
        /\ calls < MaxClassifies
        /\ calls' = calls + 1
        /\ Return(classify_single(classifier, stats, merchant, context, answer))
        /\ UNCHANGED <<classifier, prediction>>
        /\ UNCHANGED <<normVars, fbVars, ruleVars, fewVars, revVars, matchVars, procVars>>

\* the call reaches messages.create
Asks(cl, merchant) ==
    /\ cl.loaded
    /\ cl.enable_claude
    /\ ~FewshotRaises(cl.master_db)
    /\ HybridMatch(cl.master_db, normalize(merchant, SynonymTable(cl.synonym_map))).source
           = MatchSource.unmatched

\* the provider answers when it is asked
AnswersTo(cl, merchant, answers) == IF Asks(cl, merchant) THEN answers ELSE {NoAnswer}

ClassifySingle ==
    /\ classifier.loaded
    /\ calls < MaxClassifies
    /\ \E merchant \in ClsMerchants, context \in ClsContexts :
           \E answer \in AnswersTo(classifier, merchant, ClsAnswers) :
               Classify(merchant, context, answer)

NextClassify == Construct \/ ClassifySingle

SpecClassify == InitClassify /\ [][NextClassify]_vars

\* the category is null: Python's None or pandas' missing value
IsNull(category) == category \in {None, NaNCat}

\* the rows of the loaded store whose key is the normalized merchant of the
\* last call
KeyRows == {i \in 1..Len(classifier.master_db) :
               classifier.master_db[i].key = clsResult.merchant}

\* C1: when the normalized merchant equals a key of the loaded store, the
\* cascade returns the category stored with that key, confidence 1.0 and
\* source ExactMatch, whatever the other keys and whatever the category value.
C1_ExactMatchWins ==
    (clsResult.made /\ KeyRows # {})
    => /\ clsResult.cascade.source = MatchSource.exact
       /\ clsResult.cascade.conf = 1000
       /\ \E i \in KeyRows : classifier.master_db[i].cat = clsResult.cascade.cat

\* the case of C1: the merchant of the call is a key of the store, and the
\* store holds another key within the fuzzy threshold of it
C1_Witness ==
    /\ clsResult.made
    /\ KeyRows # {}
    /\ \E j \in 1..Len(classifier.master_db) :
          /\ j \notin KeyRows
          /\ Ratio(clsResult.merchant, classifier.master_db[j].key) >= FUZZY_THRESHOLD

\* C6: a category that classify_single returns and that is not null is one of
\* the categories of the loaded store when the source is ExactMatch, Fuzzy or
\* N-gram, and one of the nine labels of the taxonomy when the source is
\* Claude or Claude+Rule.
C6_CategoryWithinSets ==
    (clsResult.made /\ ~clsResult.raised /\ ~IsNull(clsResult.category))
    => /\ clsResult.source \in {MatchSource.exact, MatchSource.fuzzy, MatchSource.ngram}
          => \E i \in 1..Len(classifier.master_db) :
                classifier.master_db[i].cat = clsResult.category
       /\ clsResult.source \in {"Claude", "Claude+Rule"}
          => clsResult.category \in Taxonomy

\* the case of C6: the provider was asked and classify_single returned the
\* category it built from the answer
C6_Witness ==
    /\ clsResult.made
    /\ clsResult.called
    /\ clsResult.source \in {"Claude", "Claude+Rule"}
    /\ clsResult.answer.kind \in {"raise", "message"}

\* C8: the category classify_single returns is null exactly when the source
\* is Unmatched.
C8_NullIffUnmatched ==
    (clsResult.made /\ ~clsResult.raised)
    => (IsNull(clsResult.category) <=> clsResult.source = MatchSource.unmatched)

\* the case of C8: the merchant of the call is the key of a store row whose
\* category is missing
C8_Witness ==
    /\ clsResult.made
    /\ ~clsResult.raised
    /\ \E i \in KeyRows : classifier.master_db[i].cat = NaNCat

\* C9: the confidence classify_single returns lies in [0, 1].
C9_ConfidenceInUnitInterval ==
    (clsResult.made /\ ~clsResult.raised)
    => (clsResult.confidence >= 0 /\ clsResult.confidence <= 1000)

\* the case of C9: the provider reported a confidence of 1.5 or of -0.5 and
\* classify_single returned
C9_Witness ==
    /\ clsResult.made
    /\ clsResult.called
    /\ \E c \in {"Meal", "Dining", "VehicleFuel"}, k \in {"1.5", "-0.5"} :
          clsResult.answer = Message(<<Response(<<c>>, <<k>>)>>)

\* what the rule post-processor makes of the provider's answer to the call
Postprocessed(r) ==
    LET Processed(claude_result) ==
            process(r.merchant, claude_result.value.category,
                    claude_result.value.confidence, r.context)
    IN  Processed(predict(ZeroStats, r.answer))

\* C26: classify_single asks the AI provider exactly when the cascade returned
\* Unmatched and AI is enabled, and at most once per row; the rule
\* post-processor acts on that AI output only: a result that comes from the
\* cascade keeps the cascade's category, confidence and source, and the source
\* of an AI result is Claude+Rule exactly when the post-processor reports
\* rule_applied.
C26_AIOnlyAfterMiss ==
    clsResult.made =>
        /\ clsResult.called <=>
               (clsResult.cascade.source = MatchSource.unmatched
                    /\ classifier.enable_claude)
        /\ stats.total_calls <= calls
        /\ ~clsResult.called =>
               /\ clsResult.category = clsResult.cascade.cat
               /\ clsResult.confidence = clsResult.cascade.conf
               /\ clsResult.source = clsResult.cascade.source
        /\ clsResult.source \in {MatchSource.exact, MatchSource.fuzzy, MatchSource.ngram} =>
               /\ ~clsResult.called
               /\ clsResult.category = clsResult.cascade.cat
               /\ clsResult.confidence = clsResult.cascade.conf
        /\ clsResult.called =>
               /\ clsResult.source \in {"Claude", "Claude+Rule"}
               /\ clsResult.source = "Claude+Rule" <=> Postprocessed(clsResult).rule_applied
               /\ clsResult.category = Postprocessed(clsResult).category
               /\ clsResult.confidence = Postprocessed(clsResult).confidence

\* a row that no matcher knows is classified with AI enabled on a store that
\* holds no row
C26_Witness ==
    /\ clsResult.made
    /\ classifier.enable_claude
    /\ classifier.master_db = <<>>
    /\ clsResult.cascade.source = MatchSource.unmatched

\* C16: a store file that lacks a required column or holds two rows with the
\* same key makes the construction of the classifier raise: no classifier is
\* ever loaded from such a file and no classification is made on it.
C16_LoadFailsFast ==
    (classifier.loaded \/ clsResult.made)
    => (HasRequiredColumns(masterDbFile) /\ UniqueKeys(masterDbFile))

\* the case of C16: the constructor has run on a store file with two rows of
\* the same key
C16_Witness ==
    /\ classifier # [loaded |-> FALSE]
    /\ HasRequiredColumns(masterDbFile)
    /\ ~UniqueKeys(masterDbFile)

\* C17: the store a classifier has loaded holds no two rows with the same
\* (normalized) key.
C17_OneCategoryPerKey ==
    classifier.loaded => UniqueKeys(classifier.master_db)

\* the case of C17: a classifier has loaded a store file two keys of which
\* differ as written and are equal once normalized
C17_Witness ==
    /\ classifier.loaded
    /\ \E a, b \in 1..Len(masterDbFile) :
          /\ masterDbFile[a].key # masterDbFile[b].key
          /\ normalize(masterDbFile[a].key, SynonymTable("empty"))
                = normalize(masterDbFile[b].key, SynonymTable("empty"))

(***************************************************************************)
(* Feedback, then classification                                           *)
(***************************************************************************)
\* raw merchants of a feedback batch: the sandwich chain as SYNONYM_MAP has it,
\* a name with a branch in brackets, a plain name
LoopMerchants ==
    { <<"sseo", "beu", "we", "i">>, <<"x", "(", "y", "jeom", ")">>, <<"x", "y">> }

LoopBatches == SeqsUpTo([merchant : LoopMerchants, confirmed : FbCategories], MaxBatch)

LoopAnswers == {Raises("Timeout"), Message(<<Response(<<"Meal">>, <<"0.95">>)>>)}

InitLoop ==
    /\ masterDbFile \in FbStores
    /\ feedbackLog = <<>>
    /\ backups = <<>>
    /\ now = 0
    /\ fbHistory = <<>>
    /\ IdleCls
    /\ IdleMatch
    /\ IdleProcs
    /\ IdleFewshot
    /\ IdleReview
    /\ IdleNorm
    /\ IdleRules

\* one collect_feedback run before the classifier is constructed
LoopFeedback ==
    /\ ~classifier.loaded
    /\ fbHistory = <<>>
    /\ \E batch \in LoopBatches, auto_update \in BOOLEAN :
           CollectFeedback(batch, auto_update)

\* classify_single on a merchant of the feedback batches
LoopClassify ==
    /\ classifier.loaded
    /\ calls < MaxClassifies
    /\ \E merchant \in LoopMerchants, context \in ClsContexts :
           \E answer \in AnswersTo(classifier, merchant, LoopAnswers) :
               Classify(merchant, context, answer)

NextLoop == LoopFeedback \/ Construct \/ LoopClassify

SpecLoop == InitLoop /\ [][NextLoop]_vars

\* C7: after collect_feedback with auto_update has committed a confirmed row
\* (m, c), a classifier constructed from the store classifies the raw merchant
\* m as c, by exact match, with confidence 1.0 (for the last confirmed row of
\* the batch with that key).
C7_FeedbackLoopCloses ==
    (clsResult.made /\ fbHistory # <<>> /\ fbHistory[Len(fbHistory)].committed)
    => LET rows == Confirmed(fbHistory[Len(fbHistory)].batch)
       IN  \A j \in 1..Len(rows) :
               (/\ rows[j].merchant = clsResult.merchant_raw
                /\ \A l \in (j + 1)..Len(rows) : FbKey(rows[l]) # FbKey(rows[j]))
               => /\ clsResult.category = rows[j].confirmed
                  /\ clsResult.source = MatchSource.exact
                  /\ clsResult.confidence = 1000

\* the case of C7: a batch was committed, a classifier was constructed
\* afterwards and has classified a merchant of that batch
C7_Witness ==
    /\ clsResult.made
    /\ fbHistory # <<>>
    /\ fbHistory[Len(fbHistory)].committed
    /\ \E j \in 1..Len(fbHistory[Len(fbHistory)].batch) :
          fbHistory[Len(fbHistory)].batch[j].merchant = clsResult.merchant_raw

(***************************************************************************)
(* Few-shot example selection (claude_api.py)                              *)
(*                                                                         *)
(* A sample is a sequence of row labels of the store; which rows a sample  *)
(* holds, and in which order, is the library's choice.                     *)
(***************************************************************************)
Min(a, b) == IF a <= b THEN a ELSE b

Max(a, b) == IF a >= b THEN a ELSE b

\* Series.unique(): the values in the order of their first appearance
RECURSIVE Unique(_)
Unique(values) ==
    LET Add(front, last) ==
            IF \E i \in 1..Len(front) : front[i] = last THEN front
            ELSE Append(front, last)
    IN  IF values = <<>> THEN <<>>
        ELSE Add(Unique(SubSeq(values, 1, Len(values) - 1)), values[Len(values)])

\* master_db[master_db.cat == category]: the labels of the rows; NaN is equal
\* to nothing
RowsWith(master_db, category) ==
    IF category = NaNCat THEN {}
    ELSE {i \in 1..Len(master_db) : master_db[i].cat = category}

\* a sample that may hold a row more than once
SamplesReplaced(rows, k) == [1..k -> rows]

\* DataFrame.sample(k): k of the rows, in any order, none of them twice
Samples(rows, k) ==
    {s \in [1..k -> rows] : \A a, b \in 1..k : s[a] = s[b] => a = b}

\* examples[:n]
Take(examples, n) == SubSeq(examples, 1, Min(n, Len(examples)))

\* the loop over the categories of the "diverse" strategy: every list of
\* examples the samples allow
RECURSIVE DiverseLoop(_, _, _, _, _)
DiverseLoop(master_db, categories, n, samples_per_category, examples) ==
    LET Next(extended) ==
            IF Len(extended) >= n THEN {extended}
            ELSE DiverseLoop(master_db, Tail(categories), n, samples_per_category,
                             extended)
        Sampled(category_df) ==
            UNION {Next(examples \o samples) :
                      samples \in Samples(category_df,
                                          Min(samples_per_category,
                                              Cardinality(category_df)))}
    IN  IF categories = <<>> THEN {examples}
        ELSE Sampled(RowsWith(master_db, Head(categories)))

\* select_fewshot_examples(master_db, n, strategy): the returns the sampling
\* allows; rows are the labels of the rows the examples were made from
select_fewshot_examples(master_db, n, strategy) ==
    LET Diverse(categories) ==
            IF categories = <<>>
            THEN {[raised |-> "ZeroDivisionError", rows |-> <<>>]}
            ELSE {[raised |-> "", rows |-> Take(examples, n)] :
                     examples \in DiverseLoop(master_db, categories, n,
                                              Max(1, n \div Len(categories)), <<>>)}
    IN  IF strategy = "diverse"
        THEN Diverse(Unique([i \in 1..Len(master_db) |-> master_db[i].cat]))
        ELSE IF strategy = "random"
        THEN {[raised |-> "", rows |-> samples] :
                 samples \in Samples(1..Len(master_db), Min(n, Len(master_db)))}
        ELSE {[raised |-> "ValueError", rows |-> <<>>]}

(***************************************************************************)
(* Few-shot example selection on its own                                   *)
(***************************************************************************)
MaxFewStore == 3
MaxFewshot == 3

\* stores in memory: two keys, two labels and a missing category
FewStores == SeqsUpTo([key : {<<"x">>, <<"y">>}, cat : {"Meal", "Etc", NaNCat}],
                      MaxFewStore)

\* the two strategies of the code and the third one its documentation names
FewStrategies == {"diverse", "random", "recent"}

InitFewshot ==
    /\ fewshot \in [pc : {"start"}, master_db : FewStores, n : 1..MaxFewshot,
                    strategy : FewStrategies]
    /\ IdleNorm
    /\ IdleMatch
    /\ IdleProcs
    /\ IdleFeedback
    /\ IdleRules
    /\ IdleCls
    /\ IdleReview

\* one call of select_fewshot_examples
SelectFewshot ==
    /\ fewshot.pc = "start"
    /\ \E ret \in select_fewshot_examples(fewshot.master_db, fewshot.n,
                                          fewshot.strategy) :
           fewshot' = [pc |-> "returned", master_db |-> fewshot.master_db,
                       n |-> fewshot.n, strategy |-> fewshot.strategy,
                       raised |-> ret.raised, rows |-> ret.rows,
                       examples |-> [i \in 1..Len(ret.rows) |->
                                        [merchant |-> fewshot.master_db[ret.rows[i]].key,
                                         category |-> fewshot.master_db[ret.rows[i]].cat]]]
    /\ UNCHANGED <<normVars, fbVars, ruleVars, clsVars, revVars, matchVars, procVars>>

NextFewshot == SelectFewshot

SpecFewshot == InitFewshot /\ [][NextFewshot]_vars

\* the number of different category values of a store
CategoryCount(master_db) == Cardinality({master_db[i].cat : i \in 1..Len(master_db)})

REVIEW_THRESHOLD == 800

\* the frame of a list of rows, as read_csv labels it
Frame(rows) == [l \in 0..(Len(rows) - 1) |-> rows[l + 1]]

\* the labels of review_needed
ReviewNeeded(results_df, review_threshold) ==
    {l \in DOMAIN results_df :
        \/ results_df[l].confidence < review_threshold
        \/ results_df[l].source = MatchSource.unmatched
        \/ results_df[l].category = "Etc"}

\* A response text is a sequence of <review> elements, after the opening
\* <reviews> tag when the provider wraps them as the system prompt asks.
ReviewsTag == [tag |-> "<reviews>"]

\* what the pattern matches from an opening <reviews> tag to the first
\* </review>: the tag's rest, an opening <review> tag and the first element
NestedReview == [nested |-> TRUE]

\* re.findall(r'<review[^>]*>(.*?)</review>', response): the pattern's
\* "<review[^>]*>" matches an opening <reviews> tag as well
ReviewMatches(response) ==
    IF response # <<>> /\ Head(response) = ReviewsTag
    THEN IF Len(response) = 1 THEN <<>>
         ELSE <<NestedReview>> \o SubSeq(response, 3, Len(response))
    ELSE response

\* the body of the loop of _parse_reviews for one <review> element: an element
\* whose final_confidence is no number raises and is skipped, and so does a
\* match with an opening tag inside (ET.fromstring finds no closing tag for it)
ParseReview(element) ==
    LET Parsed(final_confidence) ==
            [ok |-> final_confidence.ok,
             review |-> [decision |-> IF element.decision = None THEN "CONFIRM"
                                      ELSE element.decision,
                         final_category |-> element.final_category,
                         final_confidence |-> final_confidence.value,
                         reason |-> element.reason]]
    IN  IF element = NestedReview THEN [ok |-> FALSE, review |-> element]
        ELSE IF element.final_confidence = None THEN Parsed([ok |-> TRUE, value |-> 0])
        ELSE Parsed(ParseFloat(element.final_confidence))

\* _parse_reviews: the key of a review is the number of reviews parsed before it
RECURSIVE ParseReviews(_, _)
ParseReviews(review_matches, reviews) ==
    LET Parsed(parsed) ==
            ParseReviews(Tail(review_matches),
                         IF parsed.ok THEN Append(reviews, parsed.review) ELSE reviews)
    IN  IF review_matches = <<>> THEN reviews
        ELSE Parsed(ParseReview(Head(review_matches)))

_parse_reviews(response) == Frame(ParseReviews(ReviewMatches(response), <<>>))

\* _review_batch: the reviews parsed from the answer, or, when the call or the
\* parsing raises, a CONFIRM for every row of the batch
_review_batch(results_df, batch, answer) ==
    IF answer.kind = "raise" \/ answer.content = <<>>
    THEN [l \in batch |->
             [decision |-> "CONFIRM", final_category |-> results_df[l].category,
              final_confidence |-> results_df[l].confidence, reason |-> "API error"]]
    ELSE _parse_reviews(answer.content[1])

\* the labels of a selection, in the order of the rows
RECURSIVE Labels(_)
Labels(selection) ==
    IF selection = {} THEN <<>>
    ELSE LET Rest(first) == <<first>> \o Labels(selection \ {first})
         IN  Rest(CHOOSE l \in selection : \A m \in selection : l <= m)

\* the rows of one batch
BATCH_SIZE == 10

\* the loop of _batch_review over the rows still to review: reviews.update
\* lets the reviews of a batch replace earlier reviews with the same key
RECURSIVE BatchReview(_, _, _, _)
BatchReview(results_df, labels, answers, reviews) ==
    IF labels = <<>> THEN reviews
    ELSE LET Updated(n, batch_reviews) ==
                 BatchReview(results_df, SubSeq(labels, n + 1, Len(labels)),
                             Tail(answers), batch_reviews @@ reviews)
             Batch(n) ==
                 Updated(n, _review_batch(results_df, {labels[j] : j \in 1..n},
                                          Head(answers)))
         IN  Batch(Min(BATCH_SIZE, Len(labels)))

\* FinalReviewer._batch_review(review_needed): one provider call for every
\* batch of batch_size rows; answers[b] is the answer to the b-th call
_batch_review(results_df, review_needed, answers) ==
    BatchReview(results_df, Labels(review_needed), answers, <<>>)

\* one pass of the loop that applies the reviews
ApplyReview(row, rv) ==
    IF rv.decision = "MODIFY"
    THEN [row EXCEPT !.final_category = rv.final_category,
                     !.final_confidence = rv.final_confidence,
                     !.final_status = "AIModified", !.opinion = rv.reason]
    ELSE IF rv.decision = "REVIEW"
    THEN [row EXCEPT !.final_status = "ManualReview", !.opinion = rv.reason]
    ELSE [row EXCEPT !.final_status = "AIConfirmed", !.opinion = rv.reason]

\* the row that final_df.loc[idx, column] = value makes for a label the frame
\* does not have
NewRow ==
    [category |-> NaNCat, confidence |-> NaNCat, source |-> NaNCat,
     final_status |-> NaNCat, final_category |-> NaNCat, final_confidence |-> NaNCat,
     opinion |-> NaNCat]

\* FinalReviewer.review_results; answers[b] is the provider's answer to the
\* b-th batch
review_results(results_df, review_threshold, answers) ==
    LET Merged(final_df, reviews) ==
            [l \in DOMAIN final_df \cup DOMAIN reviews |->
                IF l \notin DOMAIN reviews THEN final_df[l]
                ELSE IF l \in DOMAIN final_df THEN ApplyReview(final_df[l], reviews[l])
                ELSE ApplyReview(NewRow, reviews[l])]
        Reviewed(review_needed) ==
            IF review_needed = {}
            THEN [l \in DOMAIN results_df |->
                     [final_status |-> "AutoConfirmed", opinion |-> ""] @@ results_df[l]]
            ELSE Merged([l \in DOMAIN results_df |->
                            [final_status |-> "AutoConfirmed",
                             final_category |-> results_df[l].category,
                             final_confidence |-> results_df[l].confidence,
                             opinion |-> ""] @@ results_df[l]],
                        _batch_review(results_df, review_needed, answers))
    IN  Reviewed(ReviewNeeded(results_df, review_threshold))

(***************************************************************************)
(* Final review on its own                                                 *)
(***************************************************************************)
MaxRows == 2
MaxReviews == 2

\* rows of a results file: two that need no review (one of them at the
\* threshold), and one for each reason of a review
ReviewRows ==
    { [category |-> "Meal", confidence |-> 1000, source |-> MatchSource.exact],
      [category |-> "Meal", confidence |-> 800, source |-> MatchSource.fuzzy],
      [category |-> "Meal", confidence |-> 650, source |-> MatchSource.ngram],
      [category |-> "Etc", confidence |-> 1000, source |-> MatchSource.exact],
      [category |-> NaNCat, confidence |-> 0, source |-> MatchSource.unmatched] }

ReviewTables == {Frame(rows) : rows \in SeqsUpTo(ReviewRows, MaxRows)}

ReviewElements ==
    [decision : {"CONFIRM", "MODIFY", "REVIEW", None}, final_category : {"Supplies"},
     final_confidence : {"0.95", "high"}, reason : {"because"}]

ReviewAnswers ==
    {Raises("Timeout"), Message(<<>>)}
        \cup {Message(<<response>>) : response \in SeqsUpTo(ReviewElements, MaxReviews)}

InitReview ==
    /\ review \in [pc : {"start"}, results_df : ReviewTables]
    /\ IdleNorm
    /\ IdleMatch
    /\ IdleProcs
    /\ IdleFeedback
    /\ IdleRules
    /\ IdleCls
    /\ IdleFewshot

\* one call of FinalReviewer.review_results(results_df, review_threshold = 0.8);
\* the provider is asked only when a row needs a review
ReviewResults ==
    /\ review.pc = "start"
    /\ \E answer \in IF ReviewNeeded(review.results_df, REVIEW_THRESHOLD) = {}
                     THEN {NoAnswer} ELSE ReviewAnswers :
           review' = [pc |-> "returned", results_df |-> review.results_df,
                      answer |-> answer,
                      final_df |-> review_results(review.results_df, REVIEW_THRESHOLD,
                                                  <<answer>>)]
    /\ UNCHANGED <<normVars, fbVars, ruleVars, clsVars, fewVars, matchVars, procVars>>

NextReview == ReviewResults

SpecReview == InitReview /\ [][NextReview]_vars

\* C14: whatever the provider answers, a row that was not selected for review
\* keeps its category and confidence as its final values, is marked
\* AutoConfirmed and has an empty review opinion.
C14_UnselectedRowsUntouched ==
    review.pc = "returned" =>
        \A l \in DOMAIN review.results_df
                    \ ReviewNeeded(review.results_df, REVIEW_THRESHOLD) :
            /\ l \in DOMAIN review.final_df
            /\ {"final_category", "final_confidence"} \subseteq DOMAIN review.final_df[l]
            /\ review.final_df[l].final_category = review.results_df[l].category
            /\ review.final_df[l].final_confidence = review.results_df[l].confidence
            /\ review.final_df[l].final_status = "AutoConfirmed"
            /\ review.final_df[l].opinion = ""

\* the case of C14: a file with a row that needs no review and a row that
\* needs one has been reviewed, and the provider answered with a review
C14_Witness ==
    /\ review.pc = "returned"
    /\ ReviewNeeded(review.results_df, REVIEW_THRESHOLD) # {}
    /\ DOMAIN review.results_df \ ReviewNeeded(review.results_df, REVIEW_THRESHOLD) # {}
    /\ review.answer.kind = "message"
    /\ review.answer.content # <<>>
    /\ _parse_reviews(review.answer.content[1]) # <<>>

(***************************************************************************)
(* Final review of a table that needs more than one batch                  *)
(***************************************************************************)
\* a row that is selected for review and a row that is not; the confidence
\* tells the rows of a table apart
SelectedRow(l) == [category |-> "Meal", confidence |-> 500 + l, source |-> MatchSource.ngram]
UnselectedRow(l) == [category |-> "Meal", confidence |-> 900 + l, source |-> MatchSource.exact]

\* the table of n rows whose rows with a label in unselected need no review
BatchTable(n, unselected) ==
    [l \in 0..(n - 1) |-> IF l \in unselected THEN UnselectedRow(l) ELSE SelectedRow(l)]

\* tables of one batch and of two batches, with and without a row in front
\* that needs no review
BatchTables ==
    {BatchTable(n, unselected) : n \in {2, 11, 12}, unselected \in {{}, {0}, {1}}}

\* the b-th batch of the selected rows of a table, as a sequence of labels
BatchOf(results_df, b) ==
    LET Cut(labels) ==
            SubSeq(labels, (b - 1) * BATCH_SIZE + 1, Min(b * BATCH_SIZE, Len(labels)))
    IN  Cut(Labels(ReviewNeeded(results_df, REVIEW_THRESHOLD)))

\* the number of batches of a table
BatchCount(results_df) ==
    (Cardinality(ReviewNeeded(results_df, REVIEW_THRESHOLD)) + BATCH_SIZE - 1)
        \div BATCH_SIZE

\* reasons that tell which transaction of which batch a decision is for
ReasonFor ==
    << <<"b1:t1", "b1:t2", "b1:t3", "b1:t4", "b1:t5", "b1:t6", "b1:t7",
          "b1:t8", "b1:t9", "b1:t10", "b1:t11">>,
       <<"b2:t1", "b2:t2", "b2:t3">> >>

\* a response to batch b with count decisions, all of them decision; the
\* reason of a decision tells which batch and which transaction it is for
BatchResponse(b, count, decision, wrapped) ==
    (IF wrapped THEN <<ReviewsTag>> ELSE <<>>)
        \o [j \in 1..count |->
               [decision |-> decision, final_category |-> "Supplies",
                final_confidence |-> "0.95", reason |-> ReasonFor[b][j]]]

\* the provider raises, or answers a batch of k rows with one decision too
\* few, one for every row, or one too many
BatchAnswers(b, k) ==
    {Raises("Timeout")}
        \cup {Message(<<BatchResponse(b, count, decision, wrapped)>>) :
                 count \in {k - 1, k, k + 1},
                 decision \in {"CONFIRM", "MODIFY", "REVIEW"},
                 wrapped \in BOOLEAN}

\* one answer for every batch of the table
AnswersTo_batches(results_df) ==
    IF BatchCount(results_df) = 1
    THEN {<<a>> : a \in BatchAnswers(1, Len(BatchOf(results_df, 1)))}
    ELSE {<<a, b>> : a \in BatchAnswers(1, Len(BatchOf(results_df, 1))),
                     b \in BatchAnswers(2, Len(BatchOf(results_df, 2)))}

InitBatches ==
    /\ review \in [pc : {"start"}, results_df : BatchTables]
    /\ IdleNorm
    /\ IdleMatch
    /\ IdleProcs
    /\ IdleFeedback
    /\ IdleRules
    /\ IdleCls
    /\ IdleFewshot

\* one call of FinalReviewer.review_results(results_df, review_threshold = 0.8)
\* on a table with rows to review
ReviewBatches ==
    /\ review.pc = "start"
    /\ \E answers \in AnswersTo_batches(review.results_df) :
           review' = [pc |-> "returned", results_df |-> review.results_df,
                      answers |-> answers,
                      final_df |-> review_results(review.results_df, REVIEW_THRESHOLD,
                                                  answers)]
    /\ UNCHANGED <<normVars, fbVars, ruleVars, clsVars, fewVars, matchVars, procVars>>

NextBatches == ReviewBatches

SpecBatches == InitBatches /\ [][NextBatches]_vars

\* the provider answered batch b with exactly one decision for every row
AnsweredInFull(b) ==
    \E decision \in {"CONFIRM", "MODIFY", "REVIEW"}, wrapped \in BOOLEAN :
        review.answers[b] =
            Message(<<BatchResponse(b, Len(BatchOf(review.results_df, b)), decision,
                                    wrapped)>>)

\* the decision that the answer to batch b issues for its j-th transaction
Issued(b, j) ==
    LET Element(response) == response[Len(response) - Len(BatchOf(review.results_df, b)) + j]
    IN  Element(review.answers[b].content[1])

\* the row carries the decision
Carries(row, original, element) ==
    /\ row.opinion = element.reason
    /\ row.final_status = (IF element.decision = "MODIFY" THEN "AIModified"
                           ELSE IF element.decision = "REVIEW" THEN "ManualReview"
                           ELSE "AIConfirmed")
    /\ row.final_category = (IF element.decision = "MODIFY" THEN element.final_category
                             ELSE original.category)
    /\ row.final_confidence = (IF element.decision = "MODIFY" THEN 950
                               ELSE original.confidence)

\* C24: when the provider answers every batch with exactly one well-formed
\* decision per transaction, in request order, every selected row carries the
\* decision issued for it and no other row is touched, also when the selected
\* rows are not the first rows of the table and when a second batch is needed.
C24_DecisionsReachTheirRows ==
    (/\ review.pc = "returned"
     /\ \A b \in 1..Len(review.answers) : AnsweredInFull(b))
    => /\ DOMAIN review.final_df = DOMAIN review.results_df
       /\ \A b \in 1..Len(review.answers) :
              \A j \in 1..Len(BatchOf(review.results_df, b)) :
                  Carries(review.final_df[BatchOf(review.results_df, b)[j]],
                          review.results_df[BatchOf(review.results_df, b)[j]],
                          Issued(b, j))
       /\ \A l \in DOMAIN review.results_df
                      \ ReviewNeeded(review.results_df, REVIEW_THRESHOLD) :
              /\ review.final_df[l].final_status = "AutoConfirmed"
              /\ review.final_df[l].opinion = ""
              /\ review.final_df[l].final_category = review.results_df[l].category
              /\ review.final_df[l].final_confidence = review.results_df[l].confidence

\* a table whose first row needs no review and whose other eleven rows were
\* reviewed in two batches, each answered in full
C24_Witness ==
    /\ review.pc = "returned"
    /\ review.results_df = BatchTable(12, {0})
    /\ Len(review.answers) = 2
    /\ AnsweredInFull(1) /\ AnsweredInFull(2)

\* C22: when the provider call for a batch raises, every row of that batch and
\* no other row is confirmed with its own category and confidence and with the
\* reason of the automatic confirmation; review_results returns, and the other
\* batches are reviewed.
C22_FailedBatchConfirmed ==
    review.pc = "returned" =>
        \A b \in 1..Len(review.answers) :
            /\ review.answers[b].kind = "raise" =>
                   \A j \in 1..Len(BatchOf(review.results_df, b)) :
                       Carries(review.final_df[BatchOf(review.results_df, b)[j]],
                               review.results_df[BatchOf(review.results_df, b)[j]],
                               [decision |-> "CONFIRM", reason |-> "API error"])
            /\ review.answers[b].kind # "raise" =>
                   \A j \in 1..Len(BatchOf(review.results_df, b)) :
                       review.final_df[BatchOf(review.results_df, b)[j]].opinion
                           # "API error"

\* the call for the first of two batches raised and the call for the second
\* was answered with decisions
C22_Witness ==
    /\ review.pc = "returned"
    /\ Len(review.answers) = 2
    /\ review.answers[1].kind = "raise"
    /\ review.answers[2].kind = "message"
    /\ _parse_reviews(review.answers[2].content[1]) # <<>>

(***************************************************************************)
(* Classification of a statement, then the final review                    *)
(***************************************************************************)
\* the loop of classify_batch: one classify_single for every row, in the order
\* of the rows; an exception of classify_single ends the batch
RECURSIVE ClassifyRows(_, _, _, _, _)
ClassifyRows(cl, st, rows, answer, results) ==
    LET Appended(result) ==
            IF result.raised
            THEN [raised |-> TRUE, stats |-> result.stats, results |-> results]
            ELSE ClassifyRows(cl, result.stats, Tail(rows), answer,
                              Append(results, result))
    IN  IF rows = <<>> THEN [raised |-> FALSE, stats |-> st, results |-> results]
        ELSE Appended(classify_single(cl, st, Head(rows).merchant,
                                      [given |-> TRUE, amount |-> Head(rows).amount],
                                      answer))

\* CardClassifier.classify_batch(df): the provider gives the same answer to
\* every row it is asked about; a statement without rows gives a frame without
\* columns, and the selection of the output columns raises
classify_batch(cl, st, df, answer) ==
    IF df = <<>> THEN [raised |-> TRUE, stats |-> st, results |-> <<>>]
    ELSE ClassifyRows(cl, st, df, answer, <<>>)

\* store files of the pipeline: no row, a key with a category, a key whose
\* category is the one that is always reviewed
PipeStores ==
    { <<>>, << [key |-> <<"x", "x", "x">>, cat |-> "Meal"] >>,
      << [key |-> <<"x", "x", "x">>, cat |-> "Etc"] >> }

\* the rows of a statement: a known merchant, a near miss, an unknown one
PipeRows ==
    [merchant : { <<"x", "x", "x">>, <<"x", "x", "x", "y">>, <<"sae", "ro", "un">> },
     amount : {20000}]

PipeStatements == SeqsUpTo(PipeRows, MaxRows)

InitPipeline ==
    /\ masterDbFile \in PipeStores
    /\ feedbackLog = <<>>
    /\ backups = <<>>
    /\ now = 0
    /\ fbHistory = <<>>
    /\ IdleCls
    /\ IdleMatch
    /\ IdleProcs
    /\ IdleFewshot
    /\ IdleReview
    /\ IdleNorm
    /\ IdleRules

\* one call of CardClassifier.classify_batch on a statement
ClassifyBatch ==
    LET Return(df, answer, r) ==
            /\ stats' = r.stats
            /\ clsResult' = [made |-> TRUE, df |-> df, answer |-> answer,
                             raised |-> r.raised, results |-> r.results]
    IN  /\ classifier.loaded
        /\ calls < MaxClassifies
        /\ calls' = calls + 1
        /\ \E df \in PipeStatements :
               \E answer \in IF classifier.enable_claude THEN LoopAnswers ELSE {NoAnswer} :
                   Return(df, answer, classify_batch(classifier, stats, df, answer))
        /\ UNCHANGED <<classifier, prediction>>
        /\ UNCHANGED <<normVars, fbVars, ruleVars, fewVars, revVars, matchVars, procVars>>

\* the frame of the classification results: pd.DataFrame(results) numbers the
\* rows from 0
ResultsFrame(results) ==
    Frame([i \in 1..Len(results) |->
              [merchant_raw |-> results[i].merchant_raw,
               category |-> results[i].category,
               confidence |-> results[i].confidence,
               source |-> results[i].source]])

\* FinalReviewer.review_results on the frame that classify_batch returned
ReviewClassified ==
    LET Reviewed(results_df) ==
            \E answer \in IF ReviewNeeded(results_df, REVIEW_THRESHOLD) = {}
                           THEN {NoAnswer} ELSE ReviewAnswers :
                review' = [pc |-> "returned", results_df |-> results_df,
                           answer |-> answer,
                           final_df |-> review_results(results_df, REVIEW_THRESHOLD,
                                                       <<answer>>)]
    IN  /\ clsResult.made
        /\ ~clsResult.raised
        /\ review.pc = "idle"
        /\ Reviewed(ResultsFrame(clsResult.results))
        /\ UNCHANGED <<normVars, fbVars, ruleVars, clsVars, fewVars, matchVars, procVars>>

NextPipeline == Construct \/ ClassifyBatch \/ ReviewClassified

SpecPipeline == InitPipeline /\ [][NextPipeline]_vars

\* C21: classify_batch followed by review_results gives exactly one output row
\* for every row of the statement, in the order of the statement, whatever the
\* provider answers (more or fewer decisions than transactions included).
C21_RowOrderPreserved ==
    review.pc = "returned" =>
        /\ DOMAIN review.final_df = 0..(Len(clsResult.df) - 1)
        /\ \A l \in DOMAIN review.final_df :
               review.final_df[l].merchant_raw = clsResult.df[l + 1].merchant

\* a statement of one row was classified and reviewed, and the provider
\* answered the review with two decisions
C21_Witness ==
    /\ review.pc = "returned"
    /\ Len(clsResult.df) = 1
    /\ review.answer.kind = "message"
    /\ review.answer.content # <<>>
    /\ DOMAIN _parse_reviews(review.answer.content[1]) = {0, 1}

(***************************************************************************)
(* The matchers on their own                                               *)
(***************************************************************************)
\* stores in memory: what _load_master_db makes of the store files, and a
\* store with a key shorter than an n-gram
MatchStores ==
    {_load_master_db(file) : file \in ClsStores}
        \cup { << [key |-> <<"x", "x">>, cat |-> "Meal"] >> }

\* normalized merchants: two keys, a string with fuzzy ratio 0.75 and n-gram
\* similarity 1.0 to "xxx", a short string, and a string unlike every key
MatchMerchants ==
    { <<"x", "x", "x">>, <<"x", "x", "x", "y">>, <<"x", "x", "x", "x", "x">>,
      <<"x", "x">>, <<"sae", "ro", "un">> }

InitMatch ==
    /\ matchCall \in [pc : {"start"}, master_db : MatchStores, merchant : MatchMerchants]
    /\ IdleNorm
    /\ IdleFeedback
    /\ IdleRules
    /\ IdleCls
    /\ IdleFewshot
    /\ IdleReview
    /\ IdleProcs

MatcherReturned(matcher, out) ==
    /\ matchCall.pc = "start"
    /\ matchCall' = [pc |-> matcher, master_db |-> matchCall.master_db,
                     merchant |-> matchCall.merchant, out |-> out]
    /\ UNCHANGED <<normVars, fbVars, ruleVars, clsVars, fewVars, revVars, procVars>>

\* ExactMatcher(master_db).match(merchant)
ExactMatcherMatch ==
    MatcherReturned("exact", ExactMatch(matchCall.master_db, matchCall.merchant))

\* FuzzyMatcher(master_db, FUZZY_THRESHOLD).match(merchant)
FuzzyMatcherMatch ==
    MatcherReturned("fuzzy", FuzzyMatch(matchCall.master_db, matchCall.merchant))

\* NGramMatcher(master_db, NGRAM_SIZE, NGRAM_THRESHOLD).match(merchant)
NGramMatcherMatch ==
    MatcherReturned("ngram", NGramMatch(matchCall.master_db, matchCall.merchant))

\* HybridMatcher(master_db).match(merchant)
HybridMatcherMatch ==
    MatcherReturned("hybrid", HybridMatch(matchCall.master_db, matchCall.merchant))

NextMatch ==
    ExactMatcherMatch \/ FuzzyMatcherMatch \/ NGramMatcherMatch \/ HybridMatcherMatch

SpecMatch == InitMatch /\ [][NextMatch]_vars

\* the character n-grams of a string: the string itself when it is shorter than n
GramsOf(text) ==
    IF Len(text) < NGRAM_SIZE THEN {text}
    ELSE {SubSeq(text, i, i + NGRAM_SIZE - 1) : i \in 1..(Len(text) - NGRAM_SIZE + 1)}

\* the Jaccard similarity of the n-gram sets of two strings, in thousandths
Jaccard(a, b) ==
    (1000 * Cardinality(GramsOf(a) \cap GramsOf(b)))
        \div Cardinality(GramsOf(a) \cup GramsOf(b))

\* the largest value of a function with a finite, non-empty domain
Largest(score) == CHOOSE v \in {score[i] : i \in DOMAIN score} :
                      \A i \in DOMAIN score : score[i] <= v

\* the best similarity of a merchant to the keys of a store, 0 - 1 for the
\* empty store
BestRatio(master_db, merchant) ==
    IF master_db = <<>> THEN 0 - 1
    ELSE Largest([i \in 1..Len(master_db) |-> Ratio(merchant, master_db[i].key)])

BestJaccard(master_db, merchant) ==
    IF master_db = <<>> THEN 0 - 1
    ELSE Largest([i \in 1..Len(master_db) |-> Jaccard(merchant, master_db[i].key)])

\* C25: the source of HybridMatcher.match is Fuzzy only when the merchant is no
\* key of the store and the best edit similarity reaches the fuzzy threshold,
\* and then the confidence is that similarity; it is N-gram only when in
\* addition no key reaches the fuzzy threshold and the best Jaccard score
\* reaches the n-gram threshold, and then the confidence is that score; and the
\* result is (None, 0.0, Unmatched) exactly when none of the three stages has a
\* candidate.
C25_CascadeOrder ==
    matchCall.pc = "hybrid" =>
        LET Holds(out, exact, ratio, jaccard) ==
                /\ out.source = MatchSource.fuzzy
                      => (~exact /\ ratio >= FUZZY_THRESHOLD /\ out.conf = ratio)
                /\ out.source = MatchSource.ngram
                      => /\ ~exact /\ ratio < FUZZY_THRESHOLD
                         /\ jaccard >= NGRAM_THRESHOLD /\ out.conf = jaccard
                /\ out.source = MatchSource.unmatched
                      <=> (~exact /\ ratio < FUZZY_THRESHOLD /\ jaccard < NGRAM_THRESHOLD)
                /\ out.source = MatchSource.unmatched => (out.cat = None /\ out.conf = 0)
        IN  Holds(matchCall.out,
                  \E i \in 1..Len(matchCall.master_db) :
                      matchCall.master_db[i].key = matchCall.merchant,
                  BestRatio(matchCall.master_db, matchCall.merchant),
                  BestJaccard(matchCall.master_db, matchCall.merchant))

\* the case of C25: the cascade has run for a merchant that is a key of the
\* store
C25_Witness ==
    /\ matchCall.pc = "hybrid"
    /\ \E i \in 1..Len(matchCall.master_db) :
          matchCall.master_db[i].key = matchCall.merchant

\* C27: NGramMatcher.match returns the category and the score of the first row,
\* in store order, whose Jaccard similarity to the merchant is the largest of
\* the store, when that similarity reaches the threshold, and no match
\* otherwise.
C27_NGramFirstBest ==
    matchCall.pc = "ngram" =>
        LET Holds(out, db, best) ==
                IF best >= NGRAM_THRESHOLD
                THEN /\ out.hit
                     /\ out.score = best
                     /\ \E i \in 1..Len(db) :
                           /\ Jaccard(matchCall.merchant, db[i].key) = best
                           /\ \A j \in 1..(i - 1) :
                                 Jaccard(matchCall.merchant, db[j].key) < best
                           /\ out.cat = db[i].cat
                ELSE ~out.hit
        IN  Holds(matchCall.out, matchCall.master_db,
                  BestJaccard(matchCall.master_db, matchCall.merchant))

\* the case of C27: the n-gram matcher has run on a store whose best row
\* reaches the threshold
C27_Witness ==
    /\ matchCall.pc = "ngram"
    /\ BestJaccard(matchCall.master_db, matchCall.merchant) >= NGRAM_THRESHOLD

====
